---- MODULE Spec2Model ----
(***************************************************************************)
(* Model of scripts/fetch-data.ts (KernelSU-Modules-Repo/modules): the     *)
(* bounded concurrent mapper pMap, the module validator convert2json, and  *)
(* the orchestrator main with its full and incremental modes.              *)
(*                                                                         *)
(* JavaScript arrays are 0-based, sequences here are 1-based: position j   *)
(* of a sequence is index j-1 of the array.                                *)
(***************************************************************************)
EXTENDS Integers, Sequences, FiniteSets, TLC

\* ------------------------------------------------------------------ bounds
MaxItems == 3
MaxK == 2

\* ------------------------------------------------------------- pMap state
VARIABLES
  caller,        \* the call site whose mapper pMap runs: "generic"
  items,         \* pMap's items
  concurrency,   \* pMap's concurrency
  idx,           \* number of loop iterations of pMap begun (the for-loop's i)
  ppc,           \* where the async function pMap is: loop | race | all | returned | rejected
  st,            \* per item: new | queued | running | resolved | stored | spliced | failed
  executing,     \* pMap's executing array (positions of the items whose executing_promise it holds)
  results,       \* pMap's results array
  awaited,       \* the promises handed to the pending Promise.race / Promise.all
  awaitOutcome,  \* how that race / all settled: none | pending | ok | err
  settleOrder    \* positions of the items in the order their mapper invocations settled

pvars == <<caller, items, concurrency, idx, ppc, st, executing, results,
           awaited, awaitOutcome, settleOrder>>

\* ------------------------------------------------------ convert2json state
VARIABLES
  repo,                \* convert2json's argument (its releases.edges grows by the merged latestRelease)
  cpc,                 \* where convert2json is: idle | start | mapping | done
  releaseSkipReasons,  \* convert2json's releaseSkipReasons
  cresult              \* what convert2json returned (its ConvertResult)

cvars == <<repo, cpc, releaseSkipReasons, cresult>>

\* -------------------------------------------------------------- main state
VARIABLES
  REPO,           \* process.env.REPO: the '/'-separated parts of its value, <<>> when unset
  catalog,        \* .data-cache/modules.json: NoFile, or the array of modules it holds
  platform,       \* the organization's repositories as the platform lists them during this run
  mode,           \* the branch main took: none | incremental | full
  mpc,            \* where main is: idle | start | request | converting | commenting | listing | mapping
                  \*   | writing | flushing | exited
  fetched,        \* result.repository of the incremental query: <<>> (null) or <<repository>>
  convertResult,  \* main's convertResult
  modules,        \* main's modules array once it is built and sorted (<<>> before)
  comment,        \* the commentOnRelease call of this run
  exitCode,       \* the exit status of the process
  wrote,          \* whether this run wrote modules.json
  runs,           \* number of runs of the script begun
  GRAPHQL_TOKEN,  \* process.env.GRAPHQL_TOKEN: Undefined when unset
  networkIO,      \* whether this run has issued a network request or started a probe
  stderr,         \* what this run has written with console.error, in order
  propFile,       \* a module.prop on its way through the probe's parser, when the
                  \*   parser is observed on its own
  probing         \* the outer pMap call of a full run and the inner call of each
                  \*   convert2json it started, when the probes are observed one by one

mvars == <<REPO, catalog, platform, mode, mpc, fetched, convertResult, modules,
           comment, exitCode, wrote, runs, GRAPHQL_TOKEN, networkIO, stderr, propFile, probing>>

vars == <<pvars, cvars, mvars>>

\* ------------------------------------------------------------ JS helpers
Range(s) == {s[k] : k \in 1..Len(s)}

\* The arrays of at most n elements of S.
SeqsUpTo(S, n) == UNION {[1..m -> S] : m \in 0..n}

\* A hole of a sparse JavaScript array (an index never assigned).
Hole == [hole |-> TRUE]

\* Array.prototype.indexOf, 1-based; 0 stands for JavaScript's -1.
IndexOf(s, x) ==
  IF \E k \in 1..Len(s) : s[k] = x
  THEN CHOOSE k \in 1..Len(s) : s[k] = x /\ \A m \in 1..(k - 1) : s[m] # x
  ELSE 0

\* Array.prototype.splice(p, 1); splice(-1, 1) removes the last element.
SpliceOne(s, p) ==
  IF Len(s) = 0 THEN s
  ELSE IF p = 0 THEN SubSeq(s, 1, Len(s) - 1)
  ELSE SubSeq(s, 1, p - 1) \o SubSeq(s, p + 1, Len(s))

\* results[i] = v on a JavaScript array: assigning past the end leaves holes.
StoreResultPush(res, i, v) == Append(res, v)
StoreResult(res, i, v) ==
  IF i <= Len(res) THEN [res EXCEPT ![i] = v]
  ELSE res \o [k \in 1..(i - Len(res) - 1) |-> Hole] \o <<v>>

\* ------------------------------------------------- repositories and releases
\* JavaScript's undefined (a missing property), and the absent details of a
\* SkipInfo or skip record.
Undefined == "<undefined>"
NoDetails == [none |-> TRUE]

\* !v for a string-valued property: undefined and the empty string are falsy.
Falsy(v) == v = Undefined \/ v = ""

\* What the inner mapper returns for a release it skips.
NullResult == [null |-> TRUE]

\* '1970-01-01T00:00:00Z'; publishedAt values are instants after it.
Epoch == 0

\* A publishedAt the platform left null (Release.publishedAt is nullable).
NullTime == -1

ZipType == "application/zip"

RESERVED_NAMES ==
  {".github", "submission", "developers", "modules", "org.kernelsu.example",
   "module_release"}

Letters ==
  {"a", "b", "c", "d", "e", "f", "g", "h", "i", "j", "k", "l", "m", "n", "o",
   "p", "q", "r", "s", "t", "u", "v", "w", "x", "y", "z",
   "A", "B", "C", "D", "E", "F", "G", "H", "I", "J", "K", "L", "M", "N", "O",
   "P", "Q", "R", "S", "T", "U", "V", "W", "X", "Y", "Z"}

Digits == {"0", "1", "2", "3", "4", "5", "6", "7", "8", "9"}

\* The characters of the repository names the model uses.
Spelling ==
  [foo     |-> <<"f", "o", "o">>,
   Foo     |-> <<"F", "o", "o">>,
   bar     |-> <<"b", "a", "r">>,
   a       |-> <<"a">>,
   modules |-> <<"m", "o", "d", "u", "l", "e", "s">>]
  @@ (".github" :> <<".", "g", "i", "t", "h", "u", "b">>)
  @@ ("1a" :> <<"1", "a">>)

\* repo.name.match(/^[a-zA-Z][a-zA-Z0-9._-]+$/)
NameMatches(name) ==
  LET cs == Spelling[name]
  IN /\ Len(cs) >= 2
     /\ cs[1] \in Letters
     /\ \A k \in 2..Len(cs) : cs[k] \in Letters \cup Digits \cup {".", "_", "-"}

\* name.match(/^(snapshot|nightly).*/i), on the release names the model uses.
SnapshotNames == {"snapshot-1", "Nightly"}
MatchesSnapshot(name) == name \in SnapshotNames

\* A release name the platform left null (Release.name is nullable in its schema).
NullName == "<null>"

\* moduleProps[key]
PropGet(props, key) == IF key \in DOMAIN props THEN props[key] ELSE Undefined

\* node.releaseAssets?.edges.some(asset => asset.contentType === 'application/zip')
HasZipAsset(rel) ==
  \E k \in 1..Len(rel.releaseAssets) : rel.releaseAssets[k] = ZipType

\* The filter of repo.releases.edges that yields filteredReleases.
PreFilterNoImmutable(rel) == ~rel.isDraft /\ HasZipAsset(rel)
PreFilter(rel) == ~rel.isDraft /\ rel.immutable /\ HasZipAsset(rel)

SkipRecord(tag, reason, details) ==
  [tagName |-> tag, reason |-> reason, details |-> details]

SkipInfo(reason, notify, tag, details) ==
  [reason |-> reason, shouldNotify |-> notify, tagName |-> tag, details |-> details]

\* The ModuleRelease the inner mapper returns for an accepted release.
ModuleRelease(rel, props) ==
  [name |-> rel.name, tagName |-> rel.tagName, isPrerelease |-> rel.isPrerelease,
   publishedAt |-> rel.publishedAt,
   version |-> props["version"], versionCode |-> props["versionCode"]]

\* How the runzip subprocess of a probe ends: it exits with 0 and its output is
\* handed over, it cannot be run, it exits with another status (as when the
\* archive holds no module.prop), or its output exceeds maxBuffer.
ProbeOutcomes == {"stdout", "spawn error", "non-zero exit", "maxBuffer exceeded"}

\* A probe that hands over whatever the archive holds, however runzip ended.
ExtractIgnoringFailure(rel) == rel.props

\* extractModulePropsFromZip on the zip asset of rel: rel.props is what the
\* key=value lines of the archive's module.prop hold (nothing when the output
\* is empty); every error of the subprocess is caught and gives {}.
ExtractModulePropsFromZip(rel) ==
  IF rel.probe = "stdout" THEN rel.props ELSE [k \in {} |-> ""]

\* The mapper convert2json hands to pMap, on one release of filteredReleases.
ReleaseMapperVersionFirst(r, rel) ==
  LET props == ExtractModulePropsFromZip(rel)
      skip(reason, details) ==
        [ok |-> TRUE, val |-> NullResult,
         skips |-> <<SkipRecord(rel.tagName, reason, details)>>]
  IN IF ~HasZipAsset(rel) THEN skip("NO_ZIP_ASSET", NoDetails)
     ELSE IF DOMAIN props = {} THEN skip("MISSING_MODULE_PROP", NoDetails)
     ELSE IF Falsy(PropGet(props, "version")) \/ Falsy(PropGet(props, "versionCode"))
       THEN skip("MISSING_VERSION",
                 [version |-> PropGet(props, "version"),
                  versionCode |-> PropGet(props, "versionCode")])
     ELSE IF PropGet(props, "id") # r.name
       THEN skip("MODULE_ID_MISMATCH",
                 [repoName |-> r.name, moduleId |-> PropGet(props, "id")])
     ELSE [ok |-> TRUE, val |-> ModuleRelease(rel, props), skips |-> <<>>]

\* A release whose module.prop cannot be read is dropped without a skip record.
ReleaseMapperSilent(r, rel) ==
  LET props == ExtractModulePropsFromZip(rel)
      skip(reason, details) ==
        [ok |-> TRUE, val |-> NullResult,
         skips |-> <<SkipRecord(rel.tagName, reason, details)>>]
  IN IF ~HasZipAsset(rel) THEN skip("NO_ZIP_ASSET", NoDetails)
     ELSE IF DOMAIN props = {} THEN [ok |-> TRUE, val |-> NullResult, skips |-> <<>>]
     ELSE IF PropGet(props, "id") # r.name
       THEN skip("MODULE_ID_MISMATCH",
                 [repoName |-> r.name, moduleId |-> PropGet(props, "id")])
     ELSE IF Falsy(PropGet(props, "version")) \/ Falsy(PropGet(props, "versionCode"))
       THEN skip("MISSING_VERSION",
                 [version |-> PropGet(props, "version"),
                  versionCode |-> PropGet(props, "versionCode")])
     ELSE [ok |-> TRUE, val |-> ModuleRelease(rel, props), skips |-> <<>>]

\* The id of module.prop is not compared with the name of the repository.
ReleaseMapperAnyId(r, rel) ==
  LET props == ExtractModulePropsFromZip(rel)
      skip(reason, details) ==
        [ok |-> TRUE, val |-> NullResult,
         skips |-> <<SkipRecord(rel.tagName, reason, details)>>]
  IN IF ~HasZipAsset(rel) THEN skip("NO_ZIP_ASSET", NoDetails)
     ELSE IF DOMAIN props = {} THEN skip("MISSING_MODULE_PROP", NoDetails)
     ELSE IF Falsy(PropGet(props, "version")) \/ Falsy(PropGet(props, "versionCode"))
       THEN skip("MISSING_VERSION",
                 [version |-> PropGet(props, "version"),
                  versionCode |-> PropGet(props, "versionCode")])
     ELSE [ok |-> TRUE, val |-> ModuleRelease(rel, props), skips |-> <<>>]

\* The mapper as it is: id before version, one skip record per null.
ReleaseMapper(r, rel) ==
  LET props == ExtractModulePropsFromZip(rel)
      skip(reason, details) ==
        [ok |-> TRUE, val |-> NullResult,
         skips |-> <<SkipRecord(rel.tagName, reason, details)>>]
  IN IF ~HasZipAsset(rel) THEN skip("NO_ZIP_ASSET", NoDetails)
     ELSE IF DOMAIN props = {} THEN skip("MISSING_MODULE_PROP", NoDetails)
     ELSE IF PropGet(props, "id") # r.name
       THEN skip("MODULE_ID_MISMATCH",
                 [repoName |-> r.name, moduleId |-> PropGet(props, "id")])
     ELSE IF Falsy(PropGet(props, "version")) \/ Falsy(PropGet(props, "versionCode"))
       THEN skip("MISSING_VERSION",
                 [version |-> PropGet(props, "version"),
                  versionCode |-> PropGet(props, "versionCode")])
     ELSE [ok |-> TRUE, val |-> ModuleRelease(rel, props), skips |-> <<>>]

\* The three ConvertResult shapes, and a TypeError thrown out of convert2json.
NoModule == [none |-> TRUE]
NoSkipInfo == [none |-> TRUE]
Success(m) == [status |-> "success", module |-> m, skipInfo |-> NoSkipInfo]
Failure(s) == [status |-> "skip", module |-> NoModule, skipInfo |-> s]
Thrown == [status |-> "throw", module |-> NoModule, skipInfo |-> NoSkipInfo]
NoResult == [status |-> "none", module |-> NoModule, skipInfo |-> NoSkipInfo]

\* The reserved-name, name-format and description checks: the SkipInfo of the
\* first that fails, or NoSkipInfo.
ModuleLevelSkipDescriptionFirst(r) ==
  IF Falsy(r.description)
    THEN SkipInfo("NO_DESCRIPTION", TRUE, Undefined, NoDetails)
  ELSE IF r.name \in RESERVED_NAMES
    THEN SkipInfo("RESERVED_NAME", TRUE, Undefined, NoDetails)
  ELSE IF ~NameMatches(r.name)
    THEN SkipInfo("INVALID_NAME", TRUE, Undefined, [repoName |-> r.name])
  ELSE NoSkipInfo
ModuleLevelSkip(r) ==
  IF r.name \in RESERVED_NAMES
    THEN SkipInfo("RESERVED_NAME", TRUE, Undefined, NoDetails)
  ELSE IF ~NameMatches(r.name)
    THEN SkipInfo("INVALID_NAME", TRUE, Undefined, [repoName |-> r.name])
  ELSE IF Falsy(r.description)
    THEN SkipInfo("NO_DESCRIPTION", TRUE, Undefined, NoDetails)
  ELSE NoSkipInfo

\* The latest release is pushed whether the list holds its tag or not.
MergeLatestAlways(r) ==
  IF r.latestRelease # <<>> THEN Append(r.releases, r.latestRelease[1]) ELSE r.releases

\* repo.releases.edges after "merge latestRelease into releases if not present".
\* latestRelease is <<>> (null) or <<release>>.
MergeLatest(r) ==
  IF /\ r.latestRelease # <<>>
     /\ ~\E k \in 1..Len(r.releases) :
           r.releases[k].tagName = r.latestRelease[1].tagName
  THEN Append(r.releases, r.latestRelease[1])
  ELSE r.releases

\* releaseSkipReasons.find(r => r.tagName === latestReleaseTag): its position, or 0.
LatestSkipIndexAny(skips, tag) == IF Len(skips) > 0 THEN 1 ELSE 0
LatestSkipIndexNone(skips, tag) == 0
LatestSkipIndexLast(skips, tag) == Len(skips)
LatestSkipIndex(skips, tag) ==
  IF \E k \in 1..Len(skips) : skips[k].tagName = tag
  THEN CHOOSE k \in 1..Len(skips) :
         skips[k].tagName = tag /\ \A m \in 1..(k - 1) : skips[m].tagName # tag
  ELSE 0

\* shouldNotify of the three NO_VALID_RELEASES SkipInfos.
NotifyNothingFilteredOff == FALSE
NotifyNothingFiltered == TRUE
NotifyOlderOnlyOn == TRUE
NotifyOlderOnly == FALSE
NotifyNoReason == TRUE

\* The SkipInfo chosen when releases.length === 0.
NoReleasesSkip(r, filtered, skips) ==
  IF Len(filtered) = 0
    THEN SkipInfo("NO_VALID_RELEASES", NotifyNothingFiltered, Undefined, NoDetails)
  ELSE IF Len(skips) > 0
    THEN LET latestReleaseTag ==
               IF r.latestRelease # <<>> THEN r.latestRelease[1].tagName ELSE Undefined
             at == IF Falsy(latestReleaseTag) THEN 0
                   ELSE LatestSkipIndex(skips, latestReleaseTag)
         IN IF at # 0
            THEN SkipInfo(skips[at].reason, TRUE, skips[at].tagName, skips[at].details)
            ELSE SkipInfo("NO_VALID_RELEASES", NotifyOlderOnly, Undefined, NoDetails)
  ELSE SkipInfo("NO_VALID_RELEASES", NotifyNoReason, Undefined, NoDetails)

\* releases.find(pred): the position of the first match, or 0.
FirstStable(rels) ==
  IF \E k \in 1..Len(rels) : ~rels[k].isPrerelease
  THEN CHOOSE k \in 1..Len(rels) :
         ~rels[k].isPrerelease /\ \A m \in 1..(k - 1) : rels[m].isPrerelease
  ELSE 0

\* releases.find(v => v.isPrerelease && [!]v.name.match(/^(snapshot|nightly).*/i)):
\* [at |-> position or 0, throws |-> v.name.match was called on a null name first].
FirstPrerelease(rels, wantSnapshot) ==
  LET hit(k) == /\ rels[k].isPrerelease
                /\ rels[k].name # NullName
                /\ MatchesSnapshot(rels[k].name) = wantSnapshot
      bad(k) == rels[k].isPrerelease /\ rels[k].name = NullName
      stop(k) == hit(k) \/ bad(k)
  IN IF \E k \in 1..Len(rels) : stop(k)
     THEN LET k0 == CHOOSE k \in 1..Len(rels) :
                      stop(k) /\ \A m \in 1..(k - 1) : ~stop(m)
          IN [at |-> IF hit(k0) THEN k0 ELSE 0, throws |-> bad(k0)]
     ELSE [at |-> 0, throws |-> FALSE]

\* x?.publishedAt || '1970-01-01T00:00:00Z' for the release at position at.
TimeOf(rels, at) ==
  IF at = 0 \/ rels[at].publishedAt = NullTime THEN Epoch ELSE rels[at].publishedAt

\* name: node.name || node.login
CollaboratorName(node) == IF Falsy(node.name) THEN node.login ELSE node.name

\* The loop over the additionalAuthors to add: one is pushed unless an author
\* of that name exists already.
RECURSIVE AddAuthors(_, _)
AddAuthors(authors, adds) ==
  IF adds = <<>> THEN authors
  ELSE LET a == Head(adds)
           existingNames == {authors[i].name : i \in 1..Len(authors)}
       IN AddAuthors(IF a.name \in existingNames THEN authors
                     ELSE Append(authors, [name |-> a.name,
                                           link |-> IF Falsy(a.link) THEN "" ELSE a.link]),
                     Tail(adds))

\* Build authors list
Authors(r) ==
  LET collaborators ==
        [i \in 1..Len(r.collaborators) |->
           [name |-> CollaboratorName(r.collaborators[i]),
            login |-> r.collaborators[i].login]]
      authorsToRemove ==
        {r.additionalAuthors[i].name :
           i \in {k \in 1..Len(r.additionalAuthors) : r.additionalAuthors[k].type = "remove"}}
      kept == SelectSeq(collaborators,
                        LAMBDA c : c.name \notin authorsToRemove /\ c.login \notin authorsToRemove)
      authors == [i \in 1..Len(kept) |->
                    [name |-> kept[i].name, link |-> "https://github.com/" \o kept[i].login]]
  IN AddAuthors(authors,
                SelectSeq(r.additionalAuthors, LAMBDA a : a.type = "add" \/ Falsy(a.type)))

\* No snapshot prerelease: the snapshot falls back to the stable release,
\* not to the beta.
BuildModuleShortChain(r, rels) ==
  LET latest == FirstStable(rels)
      beta == FirstPrerelease(rels, FALSE)
      snap == FirstPrerelease(rels, TRUE)
      betaAt == IF beta.at # 0 THEN beta.at ELSE latest
      snapAt == IF snap.at # 0 THEN snap.at ELSE latest
  IN IF beta.throws \/ snap.throws THEN Thrown
     ELSE Success(
       [moduleId |-> r.name,
        moduleName |-> r.description,
        authors |-> Authors(r),
        latestRelease |-> IF latest = 0 THEN Undefined ELSE rels[latest].name,
        latestReleaseTime |-> TimeOf(rels, latest),
        latestBetaReleaseTime |-> TimeOf(rels, betaAt),
        latestSnapshotReleaseTime |-> TimeOf(rels, snapAt),
        releases |-> rels])

\* The part of convert2json after releases is known to be non-empty.
BuildModule(r, rels) ==
  LET latest == FirstStable(rels)
      beta == FirstPrerelease(rels, FALSE)
      snap == FirstPrerelease(rels, TRUE)
      betaAt == IF beta.at # 0 THEN beta.at ELSE latest
      snapAt == IF snap.at # 0 THEN snap.at ELSE betaAt
  IN IF beta.throws \/ snap.throws THEN Thrown
     ELSE Success(
       [moduleId |-> r.name,
        moduleName |-> r.description,
        authors |-> Authors(r),
        latestRelease |-> IF latest = 0 THEN Undefined ELSE rels[latest].name,
        latestReleaseTime |-> TimeOf(rels, latest),
        latestBetaReleaseTime |-> TimeOf(rels, betaAt),
        latestSnapshotReleaseTime |-> TimeOf(rels, snapAt),
        releases |-> rels])

NotNull(x) == x # NullResult

\* convert2json from "filter out null results" on.
Decide(r, filtered, releasesResults, skips) ==
  LET releases == SelectSeq(releasesResults, NotNull)
  IN IF Len(releases) = 0 THEN Failure(NoReleasesSkip(r, filtered, skips))
     ELSE BuildModule(r, releases)

\* No repository is being converted.
NoRepository == [none |-> TRUE]

\* ------------------------------------------- convert2json as one step
RECURSIVE ConcatAll(_)
\* The concatenation of a sequence of sequences.
ConcatAll(ss) == IF Len(ss) = 0 THEN <<>> ELSE Head(ss) \o ConcatAll(Tail(ss))

\* convert2json(r) as one step: its result when the probes of the releases
\* complete in list order.
ConvertOutcome(r) ==
  IF ModuleLevelSkip(r) # NoSkipInfo THEN Failure(ModuleLevelSkip(r))
  ELSE LET merged == [r EXCEPT !.releases = MergeLatest(r)]
           filtered == SelectSeq(merged.releases, PreFilter)
           outs == [k \in 1..Len(filtered) |-> ReleaseMapper(merged, filtered[k])]
       IN Decide(merged, filtered,
                 [k \in 1..Len(filtered) |-> outs[k].val],
                 ConcatAll([k \in 1..Len(filtered) |-> outs[k].skips]))

\* The mapper main hands to pMap: async ({ node }) => await convert2json(node).
RepositoryMapper(node) ==
  [ok |-> ConvertOutcome(node).status # "throw", val |-> ConvertOutcome(node),
   skips |-> <<>>]

\* ------------------------------------------------------------------ pMap
\* The test mapper of the generic call: item [id, raises] maps to [id, index],
\* or raises.
GenericMapper(item, i) ==
  [ok |-> ~item.raises, val |-> [id |-> item.id, index |-> i - 1], skips |-> <<>>]

\* mapper(item, i) of the running call: whether the returned promise resolves
\* (ok), the value it resolves to, and the records it pushes to
\* releaseSkipReasons before it returns.
MapperOutcome(item, i) ==
  IF caller = "convert2json" THEN ReleaseMapper(repo, item)
  ELSE IF caller = "main" THEN RepositoryMapper(item.node)
  ELSE GenericMapper(item, i)

\* if (executing.length >= concurrency)
RaceThresholdStrict(len, k) == len > k
RaceThreshold(len, k) == len >= k

\* Mapper invocations that have started and not yet settled.
InFlight == {j \in 1..Len(items) : st[j] = "running"}

\* An await that takes no notice of a promise that has already rejected.
AwaitAtCallPendingOnly(kind, arr, stnow) ==
  IF kind = "all" /\ arr = {} THEN "ok" ELSE "pending"

\* Promise.race(arr) / Promise.all(arr) at the moment they are called, given the
\* states of the promises in arr.
AwaitAtCall(kind, arr, stnow) ==
  IF \E j \in arr : stnow[j] = "failed" THEN "err"
  ELSE IF kind = "all" /\ arr = {} THEN "ok"
  ELSE "pending"

\* An await that no settlement ever wakes.
AwaitAfterLost(j, stnew) == awaitOutcome

\* The pending race / all after promise j settled.
AwaitAfter(j, stnew) ==
  IF ppc \notin {"race", "all"} \/ awaitOutcome # "pending" \/ j \notin awaited
  THEN awaitOutcome
  ELSE IF stnew[j] = "failed" THEN "err"
  ELSE IF stnew[j] # "spliced" THEN "pending"
  ELSE IF ppc = "race" THEN "ok"
  ELSE IF \A m \in awaited : stnew[m] = "spliced" THEN "ok"
  ELSE "pending"

\* The record of the order in which the mapper invocations settle, kept for
\* the calls that are observed on their own.
Settled(j) == IF caller = "generic" THEN Append(settleOrder, j) ELSE settleOrder

\* One iteration of the for loop, up to its await (or to the next iteration).
Schedule ==
  /\ ppc = "loop"
  /\ idx < Len(items)
  /\ LET i == idx + 1
         ex == Append(executing, i)
         s1 == [st EXCEPT ![i] = "queued"]
     IN /\ idx' = i
        /\ st' = s1
        /\ executing' = ex
        /\ IF RaceThreshold(Len(ex), concurrency)
           THEN /\ ppc' = "race"
                /\ awaited' = Range(ex)
                /\ awaitOutcome' = AwaitAtCall("race", Range(ex), s1)
           ELSE /\ ppc' = "loop"
                /\ UNCHANGED <<awaited, awaitOutcome>>
  /\ UNCHANGED <<caller, items, concurrency, results, settleOrder>>
  /\ UNCHANGED <<releaseSkipReasons, repo, cpc, cresult, mvars>>

\* The loop is over: await Promise.all(executing).
LoopEnd ==
  /\ ppc = "loop"
  /\ idx = Len(items)
  /\ ppc' = "all"
  /\ awaited' = Range(executing)
  /\ awaitOutcome' = AwaitAtCall("all", Range(executing), st)
  /\ UNCHANGED <<caller, items, concurrency, idx, st, executing, results, settleOrder>>
  /\ UNCHANGED <<releaseSkipReasons, repo, cpc, cresult, mvars>>

\* Promise.resolve().then(() => mapper(item, i)): the mapper is invoked in a
\* microtask, which runs only once pMap's synchronous code has reached an await;
\* microtasks run in the order they were queued.
MapperStart(j) ==
  /\ ppc # "loop"
  /\ st[j] = "queued"
  /\ \A m \in 1..(j - 1) : st[m] # "queued"
  /\ st' = [st EXCEPT ![j] = "running"]
  /\ UNCHANGED <<caller, items, concurrency, idx, ppc, executing, results,
                 awaited, awaitOutcome, settleOrder>>
  /\ UNCHANGED <<releaseSkipReasons, repo, cpc, cresult, mvars>>

\* The promise returned by mapper(item, i) resolves.
MapperResolve(j) ==
  /\ ppc # "loop"
  /\ st[j] = "running"
  /\ MapperOutcome(items[j], j).ok
  /\ st' = [st EXCEPT ![j] = "resolved"]
  /\ settleOrder' = Settled(j)
  /\ releaseSkipReasons' = releaseSkipReasons \o MapperOutcome(items[j], j).skips
  /\ UNCHANGED <<caller, items, concurrency, idx, ppc, executing, results,
                 awaited, awaitOutcome>>
  /\ UNCHANGED <<repo, cpc, cresult, mvars>>

\* The promise returned by mapper(item, i) rejects: promise and executing_promise
\* reject with it, and the splice callback never runs.
MapperReject(j) ==
  /\ ppc # "loop"
  /\ st[j] = "running"
  /\ ~MapperOutcome(items[j], j).ok
  /\ LET s1 == [st EXCEPT ![j] = "failed"]
     IN /\ st' = s1
        /\ awaitOutcome' = AwaitAfter(j, s1)
  /\ settleOrder' = Settled(j)
  /\ UNCHANGED <<caller, items, concurrency, idx, ppc, executing, results, awaited>>
  /\ UNCHANGED <<releaseSkipReasons, repo, cpc, cresult, mvars>>

\* .then(result => { results[i] = result; })
Store(j) ==
  /\ ppc # "loop"
  /\ st[j] = "resolved"
  /\ st' = [st EXCEPT ![j] = "stored"]
  /\ results' = StoreResult(results, j, MapperOutcome(items[j], j).val)
  /\ UNCHANGED <<caller, items, concurrency, idx, ppc, executing,
                 awaited, awaitOutcome, settleOrder>>
  /\ UNCHANGED <<releaseSkipReasons, repo, cpc, cresult, mvars>>

\* promise.then(() => { executing.splice(executing.indexOf(executing_promise), 1); })
\* after which executing_promise is resolved.
Splice(j) ==
  /\ ppc # "loop"
  /\ st[j] = "stored"
  /\ LET s1 == [st EXCEPT ![j] = "spliced"]
     IN /\ st' = s1
        /\ awaitOutcome' = AwaitAfter(j, s1)
  /\ executing' = SpliceOne(executing, IndexOf(executing, j))
  /\ UNCHANGED <<caller, items, concurrency, idx, ppc, results, awaited, settleOrder>>
  /\ UNCHANGED <<releaseSkipReasons, repo, cpc, cresult, mvars>>

\* pMap resumes after its await: the loop goes on, pMap returns results, or the
\* rejection of the awaited race / all is thrown out of pMap.
Resume ==
  /\ ppc \in {"race", "all"}
  /\ awaitOutcome \in {"ok", "err"}
  /\ ppc' = IF awaitOutcome = "err" THEN "rejected"
            ELSE IF ppc = "race" THEN "loop" ELSE "returned"
  /\ awaitOutcome' = "none"
  /\ awaited' = {}
  /\ UNCHANGED <<caller, items, concurrency, idx, st, executing, results, settleOrder>>
  /\ UNCHANGED <<releaseSkipReasons, repo, cpc, cresult, mvars>>

PMapStep ==
  \/ Schedule
  \/ LoopEnd
  \/ \E j \in 1..Len(items) : MapperStart(j)
  \/ \E j \in 1..Len(items) : MapperResolve(j)
  \/ \E j \in 1..Len(items) : MapperReject(j)
  \/ \E j \in 1..Len(items) : Store(j)
  \/ \E j \in 1..Len(items) : Splice(j)
  \/ Resume

\* The state of a call pMap(its, mapper, k) on entry.
PMapCall(who, its, k) ==
  /\ caller = who
  /\ items = its
  /\ concurrency = k
  /\ idx = 0
  /\ ppc = "loop"
  /\ st = [j \in 1..Len(its) |-> "new"]
  /\ executing = <<>>
  /\ results = <<>>
  /\ awaited = {}
  /\ awaitOutcome = "none"
  /\ settleOrder = <<>>


\* The same, as the effect of the step that calls pMap.
PMapEnter(who, its, k) ==
  /\ caller' = who
  /\ items' = its
  /\ concurrency' = k
  /\ idx' = 0
  /\ ppc' = "loop"
  /\ st' = [j \in 1..Len(its) |-> "new"]
  /\ executing' = <<>>
  /\ results' = <<>>
  /\ awaited' = {}
  /\ awaitOutcome' = "none"
  /\ settleOrder' = <<>>

\* No modules.json in the cache directory.
NoFile == <<[nofile |-> TRUE]>>

\* modules.json between the open that truncates it and the end of the write:
\* empty, or a proper prefix of the new content.
Truncated == <<[truncated |-> TRUE]>>

\* No commentOnRelease call in this run.
NotListed == [ok |-> FALSE, list |-> <<>>]

NoComment ==
  [state |-> "none", repoName |-> Undefined, tagName |-> Undefined, created |-> FALSE,
   error |-> "none", author |-> Undefined, listed |-> FALSE, collaborators |-> NotListed,
   posted |-> <<>>, logged |-> FALSE, raised |-> FALSE]

\* The probes are not observed one by one.
NoProbing == [none |-> TRUE]

\* The parser of the probe is not observed on its own.
NoPropFile == [none |-> TRUE]

\* convert2json is not running.
ConvertIdle ==
  /\ repo = NoRepository
  /\ cpc = "idle"
  /\ releaseSkipReasons = <<>>
  /\ cresult = NoResult

\* main is not running.
MainIdle ==
  /\ REPO = <<>>
  /\ catalog = NoFile
  /\ platform = <<>>
  /\ mode = "none"
  /\ mpc = "idle"
  /\ fetched = <<>>
  /\ convertResult = NoResult
  /\ modules = <<>>
  /\ comment = NoComment
  /\ exitCode = 0
  /\ wrote = FALSE
  /\ runs = 0
  /\ GRAPHQL_TOKEN = Undefined
  /\ networkIO = FALSE
  /\ stderr = <<>>

\* --------------------------------------------- pMap on its own (any caller)
GenericItems == [id : {"a", "b"}, raises : BOOLEAN]

InitPMap ==
  \E its \in SeqsUpTo(GenericItems, MaxItems), k \in 1..MaxK :
    /\ PMapCall("generic", its, k)
    /\ ConvertIdle
    /\ MainIdle
    /\ probing = NoProbing
    /\ propFile = NoPropFile

NextPMap == PMapStep

SpecPMap == InitPMap /\ [][NextPMap]_vars

\* C1: for every call pMap(items, mapper, K) with K >= 1, under every
\* interleaving of mapper completions, the number of mapper invocations that
\* have started and not yet settled never exceeds K.
C1_InFlightAtMostK == Cardinality(InFlight) <= concurrency

\* The cap binds: K invocations are in flight while items are still waiting.
C1_Witness ==
  /\ Cardinality(InFlight) = concurrency
  /\ ppc = "race"
  /\ idx < Len(items)

\* C2: when pMap returns, its result has length N = |items| and result[i] is
\* the value mapper(items[i], i) produced, whatever the completion order.
C2_ResultsInInputOrder ==
  ppc = "returned" =>
    /\ Len(results) = Len(items)
    /\ \A j \in 1..Len(items) : results[j] = MapperOutcome(items[j], j).val

\* pMap returned although the last item's mapper settled first.
C2_Witness ==
  /\ ppc = "returned"
  /\ Len(items) >= 2
  /\ settleOrder[1] = Len(items)

\* The event loop runs every microtask that is ready and every started mapper
\* settles: no step of a pMap call stays enabled forever without being taken.
SpecPMapFair == InitPMap /\ [][NextPMap]_vars /\ WF_vars(NextPMap)

NoneRaises == \A j \in 1..Len(items) : MapperOutcome(items[j], j).ok

SomeRaised == \E j \in 1..Len(items) : st[j] = "failed"

\* C21: if every started mapper invocation settles successfully, pMap
\* eventually has started the mapper on every input, none is left waiting, and
\* it returns.
C21_AllStartedThenReturns ==
  NoneRaises =>
    <>(/\ ppc = "returned"
       /\ \A j \in 1..Len(items) : st[j] \notin {"new", "queued"})

\* pMap returned from a call with more items than its concurrency, so the loop
\* had to wait for a slot before it started the last ones.
C21_Witness ==
  /\ ppc = "returned"
  /\ NoneRaises
  /\ Len(items) > concurrency
  /\ \A j \in 1..Len(items) : st[j] = "spliced"

\* C22: once a mapper invocation has raised, the pMap call rejects, and a call
\* that returned a result sequence had no mapper that raised.
C22_RaiseRejects ==
  /\ SomeRaised ~> (ppc = "rejected")
  /\ [](ppc = "returned" => ~SomeRaised)

\* pMap rejected during the scheduling loop, with inputs it never started.
C22_Witness ==
  /\ ppc = "rejected"
  /\ SomeRaised
  /\ idx < Len(items)
  /\ \E j \in 1..Len(items) : st[j] = "spliced"

\* ------------------------------------------------------------ convert2json
\* pMap(filteredReleases, ..., 100)
InnerConcurrency == 100

\* No call of pMap is running.
PMapIdle ==
  /\ caller = "none"
  /\ items = <<>>
  /\ concurrency = 0
  /\ idx = 0
  /\ ppc = "idle"
  /\ st = <<>>
  /\ executing = <<>>
  /\ results = <<>>
  /\ awaited = {}
  /\ awaitOutcome = "none"
  /\ settleOrder = <<>>

\* convert2json up to its await of pMap: the module-level checks, the merge of
\* latestRelease, the pre-filter.
ConvertEnter ==
  /\ cpc = "start"
  /\ IF ModuleLevelSkip(repo) # NoSkipInfo
     THEN /\ cresult' = Failure(ModuleLevelSkip(repo))
          /\ cpc' = "done"
          /\ UNCHANGED <<repo, releaseSkipReasons, pvars>>
     ELSE /\ repo' = [repo EXCEPT !.releases = MergeLatest(repo)]
          /\ releaseSkipReasons' = <<>>
          /\ PMapEnter("convert2json", SelectSeq(MergeLatest(repo), PreFilter),
                       InnerConcurrency)
          /\ cpc' = "mapping"
          /\ UNCHANGED cresult
  /\ UNCHANGED mvars

\* The steps of the inner pMap; its mapper never rejects (the probe catches
\* every error and returns {}).
ConvertMap ==
  /\ cpc = "mapping"
  /\ \/ Schedule
     \/ LoopEnd
     \/ \E j \in 1..Len(items) : MapperStart(j)
     \/ \E j \in 1..Len(items) : MapperResolve(j)
     \/ \E j \in 1..Len(items) : Store(j)
     \/ \E j \in 1..Len(items) : Splice(j)
     \/ Resume

\* convert2json after pMap returned.
ConvertReturn ==
  /\ cpc = "mapping"
  /\ ppc = "returned"
  /\ cresult' = Decide(repo, items, results, releaseSkipReasons)
  /\ cpc' = "done"
  /\ UNCHANGED <<repo, releaseSkipReasons, pvars, mvars>>

\* -------- the repositories convert2json is run on
MaxReleases == 2

\* Tags by list position (the platform lists releases newest first), and the
\* tag of a latest release the first page of releases does not hold.
TagNames == <<"v9", "v8", "v7", "v6", "v5", "v4">>
OffPageTag == "v1"

EmptyProps == [k \in {} |-> ""]
GoodProps(name) == ("id" :> name) @@ ("version" :> "1.0") @@ ("versionCode" :> "1")

\* What the probe may return for a release's archive.
PropsChoices(name) ==
  { EmptyProps,
    ("id" :> "other") @@ ("version" :> "1.0") @@ ("versionCode" :> "1"),
    ("id" :> name) @@ ("version" :> "1.0"),
    ("id" :> name) @@ ("version" :> "") @@ ("versionCode" :> "1"),
    GoodProps(name) }

\* Draft, mutable and zip-less releases, and eligible ones with each probe result.
ReleaseShapes(name) ==
  { [isDraft |-> TRUE, immutable |-> FALSE, releaseAssets |-> <<ZipType>>,
     props |-> GoodProps(name)],
    [isDraft |-> FALSE, immutable |-> FALSE, releaseAssets |-> <<ZipType>>,
     props |-> GoodProps(name)],
    [isDraft |-> FALSE, immutable |-> TRUE, releaseAssets |-> <<"text/plain">>,
     props |-> GoodProps(name)] }
  \cup
  { [isDraft |-> FALSE, immutable |-> TRUE, releaseAssets |-> <<ZipType>>, props |-> p] :
      p \in PropsChoices(name) }

Release(shape, tag, nm, pre, at) ==
  [tagName |-> tag, name |-> nm, isPrerelease |-> pre, publishedAt |-> at,
   isDraft |-> shape.isDraft, immutable |-> shape.immutable,
   releaseAssets |-> shape.releaseAssets, props |-> shape.props, probe |-> "stdout"]

\* The release lists of up to n releases, tagged by position.
ReleaseLists(name, n) ==
  { [k \in 1..Len(shapes) |->
       Release(shapes[k], TagNames[k], "Release", FALSE, 10 - k)] :
      shapes \in SeqsUpTo(ReleaseShapes(name), n) }

\* latestRelease: null, a release of the list, or one the list does not hold.
OffPageShapes(name) ==
  { s \in ReleaseShapes(name) :
      \/ ~s.immutable /\ ~s.isDraft
      \/ s.immutable /\ HasZipAsset(s) /\ "versionCode" \in DOMAIN s.props }

LatestChoices(name, rels) ==
  {<<>>} \cup {<<rels[k]>> : k \in 1..Len(rels)}
         \cup {<<Release(s, OffPageTag, "Release", FALSE, 1)>> : s \in OffPageShapes(name)}

\* Lists of acceptable releases that differ in title and kind: stable,
\* beta, snapshot, and a prerelease published without a title.
Titles == {<<"Release", FALSE>>, <<"Beta", TRUE>>, <<"snapshot-1", TRUE>>, <<NullName, TRUE>>}

GoodShape(name) ==
  [isDraft |-> FALSE, immutable |-> TRUE, releaseAssets |-> <<ZipType>>,
   props |-> GoodProps(name)]

TitledLists(name, n) ==
  { [k \in 1..Len(ts) |->
       Release(GoodShape(name), TagNames[k], ts[k][1], ts[k][2], 10 - k)] :
      ts \in SeqsUpTo(Titles, n) }

\* What the probe can parse out of a module.prop: each of id, version and
\* versionCode absent, empty or set, and a file with an unrelated key only.
WideProps(name) ==
  { LET vals == ("id" :> i) @@ ("version" :> v) @@ ("versionCode" :> c)
    IN [k \in {key \in DOMAIN vals : vals[key] # Undefined} |-> vals[k]] :
      i \in {Undefined, "", "other", name}, v \in {Undefined, "", "1.0"},
      c \in {Undefined, "", "1"} }
  \cup {("name" :> "X")}

\* The only release of a repository, also its latest, with a given probe result.
ProbedRelease(p) ==
  Release([isDraft |-> FALSE, immutable |-> TRUE, releaseAssets |-> <<ZipType>>,
           props |-> p], "v9", "Release", FALSE, 9)

\* Two eligible releases, the first with a probe that fails or prints nothing
\* over an archive that is sound or not, the second sound, foreign or failing.
ProbeFailureLists(name) ==
  LET failed ==
        { [ProbedRelease(p) EXCEPT !.probe = o] :
            p \in {GoodProps(name), EmptyProps}, o \in ProbeOutcomes \ {"stdout"} }
        \cup {ProbedRelease(EmptyProps)}
  IN { <<first,
         [Release(GoodShape(name), "v8", "Release", FALSE, 8)
            EXCEPT !.props = p, !.probe = o]>> :
         first \in failed,
         p \in {GoodProps(name), ("id" :> "other")},
         o \in {"stdout", "spawn error"} }

Repository(name, description, latest, rels) ==
  [name |-> name, description |-> description, latestRelease |-> latest,
   releases |-> rels, collaborators |-> <<>>, additionalAuthors |-> <<>>]

\* Repositories that validate, with collaborators and a module.json.
\* repo.collaborators.edges hold a display name (Undefined when the user has
\* none) and a login: two users may share a display name, never a login.
\* additionalAuthors holds the objects of module.json's array of that name.
AuthoredRepositories ==
  LET nodes == {[name |-> "Alex", login |-> "alex1"], [name |-> "Alex", login |-> "alex2"],
                [name |-> Undefined, login |-> "bob"], [name |-> "bob", login |-> "carol"]}
      lists == {l \in SeqsUpTo(nodes, 2) :
                  \A i, j \in 1..Len(l) : l[i].login = l[j].login => i = j}
      entries == {[type |-> "add", name |-> "Alex", link |-> Undefined],
                  [type |-> Undefined, name |-> "Dora", link |-> "https://dora.example"],
                  [type |-> "remove", name |-> "bob", link |-> Undefined]}
  IN {[Repository("foo", "Foo Bar", <<ProbedRelease(GoodProps("foo"))>>,
                  <<ProbedRelease(GoodProps("foo"))>>)
         EXCEPT !.collaborators = cs, !.additionalAuthors = as] :
        cs \in lists, as \in SeqsUpTo(entries, 2)}

ConvertInputs ==
  UNION { { Repository("foo", "Foo Bar", latest, rels) :
              latest \in LatestChoices("foo", rels) } :
          rels \in ReleaseLists("foo", MaxReleases) }
  \cup
  UNION { { Repository(name, description, <<>>, rels) :
              description \in {"", Undefined, "Foo Bar"}, rels \in ReleaseLists(name, 1) } :
          name \in {"foo", "a", "modules", ".github", "1a"} }
  \cup
  { Repository("foo", "Foo Bar", <<>>, rels) : rels \in TitledLists("foo", MaxReleases) }
  \cup
  { Repository("foo", "Foo Bar", <<ProbedRelease(p)>>, <<ProbedRelease(p)>>) :
      p \in WideProps("foo") }
  \cup
  AuthoredRepositories
  \cup
  UNION { { Repository("foo", "Foo Bar", latest, rels) : latest \in {<<>>, <<rels[1]>>} } :
          rels \in ProbeFailureLists("foo") }
  \cup
  \* a beta or a snapshot the platform gives no publishedAt for, alone or
  \* before a stable release
  { Repository("foo", "Foo Bar", <<>>,
               <<Release(GoodShape("foo"), "v2", t, TRUE, NullTime)>> \o rest) :
      t \in {"Beta", "snapshot-1"},
      rest \in {<<>>, <<Release(GoodShape("foo"), "v1", "Release", FALSE, 1)>>} }

InitConvert ==
  /\ repo \in ConvertInputs
  /\ cpc = "start"
  /\ releaseSkipReasons = <<>>
  /\ cresult = NoResult
  /\ PMapIdle
  /\ MainIdle
  /\ probing = NoProbing
  /\ propFile = NoPropFile

NextConvert == ConvertEnter \/ ConvertMap \/ ConvertReturn

SpecConvert == InitConvert /\ [][NextConvert]_vars

\* -------- what the claims about convert2json speak of
\* The releases the pre-filter is applied to.
AllReleases == MergeLatest(repo)
ModuleLevelOk == ModuleLevelSkip(repo) = NoSkipInfo
Eligible(k) == PreFilter(AllReleases[k])
AcceptedAt(k) == Eligible(k) /\ ReleaseMapper(repo, AllReleases[k]).val # NullResult
BrokenAt(k) == Eligible(k) /\ ReleaseMapper(repo, AllReleases[k]).val = NullResult
HasLatest == repo.latestRelease # <<>>
LatestTag == repo.latestRelease[1].tagName
LatestBroken ==
  HasLatest /\ \E k \in 1..Len(AllReleases) :
                 AllReleases[k].tagName = LatestTag /\ BrokenAt(k)
OtherAccepted ==
  \E k \in 1..Len(AllReleases) : AllReleases[k].tagName # LatestTag /\ AcceptedAt(k)
SomeAccepted == \E k \in 1..Len(AllReleases) : AcceptedAt(k)
SomeEligible == \E k \in 1..Len(AllReleases) : Eligible(k)
Validated == cpc = "done" /\ ModuleLevelOk

\* C4, as claimed: when the declared latest release fails deep validation while
\* at least one older release is acceptable, the outcome carries
\* shouldNotify = true with tagName equal to the latest release's tag.
C4_AsClaimed ==
  (Validated /\ LatestBroken /\ OtherAccepted) =>
    /\ cresult.status = "skip"
    /\ cresult.skipInfo.shouldNotify
    /\ cresult.skipInfo.tagName = LatestTag

\* C4, amended: when the declared latest release fails deep validation and no
\* release of the repository is acceptable, the outcome carries
\* shouldNotify = true with tagName equal to the latest release's tag.
C4_LatestBrokenNoneAccepted ==
  (Validated /\ LatestBroken /\ ~SomeAccepted) =>
    /\ cresult.status = "skip"
    /\ cresult.skipInfo.shouldNotify
    /\ cresult.skipInfo.tagName = LatestTag

\* The latest release and an older one are both broken.
C4_Witness ==
  /\ Validated /\ LatestBroken /\ ~SomeAccepted
  /\ Len(releaseSkipReasons) >= 2
  /\ releaseSkipReasons[1].tagName # LatestTag

\* C5, as claimed: if at least one release of a repository that passes the
\* module-level predicates is accepted by deep validation, convert2json returns
\* success with a Module, however many other releases produced skip records;
\* there is no SkipInfo and no skip record surfaces in the outcome.
C5_AsClaimed ==
  (Validated /\ SomeAccepted) =>
    /\ cresult.status = "success"
    /\ cresult.skipInfo = NoSkipInfo
    /\ cresult.module.moduleId = repo.name
    /\ Len(cresult.module.releases) >= 1
    /\ \A k \in 1..Len(cresult.module.releases) :
         \A m \in 1..Len(releaseSkipReasons) :
           cresult.module.releases[k].tagName # releaseSkipReasons[m].tagName

\* C6: when no release is accepted and at least one passed the pre-filter: if a
\* skip record exists whose tag is the declared latest-release tag T, the
\* SkipInfo has that record's reason and details, shouldNotify = true and
\* tagName = T; otherwise it is NO_VALID_RELEASES with shouldNotify = false and
\* no tagName.
C6_SkipInfoFollowsLatest ==
  (Validated /\ ~SomeAccepted /\ SomeEligible) =>
    /\ cresult.status = "skip"
    /\ IF HasLatest /\ \E m \in 1..Len(releaseSkipReasons) :
                         releaseSkipReasons[m].tagName = LatestTag
       THEN \E m \in 1..Len(releaseSkipReasons) :
              /\ releaseSkipReasons[m].tagName = LatestTag
              /\ cresult.skipInfo =
                   SkipInfo(releaseSkipReasons[m].reason, TRUE, LatestTag,
                            releaseSkipReasons[m].details)
       ELSE cresult.skipInfo = SkipInfo("NO_VALID_RELEASES", FALSE, Undefined, NoDetails)

\* Only releases other than the declared latest one were broken.
C6_Witness ==
  /\ Validated /\ ~SomeAccepted /\ SomeEligible /\ HasLatest
  /\ cresult.skipInfo.reason = "NO_VALID_RELEASES"
  /\ ~cresult.skipInfo.shouldNotify

\* C7: when every release of a repository is eliminated by the pre-filter (only
\* draft, mutable or zip-less releases, or no releases at all), the outcome is
\* SkipInfo NO_VALID_RELEASES with shouldNotify = true.
C7_NothingEligibleNotifies ==
  (Validated /\ ~SomeEligible) =>
    /\ cresult.status = "skip"
    /\ cresult.skipInfo.reason = "NO_VALID_RELEASES"
    /\ cresult.skipInfo.shouldNotify

\* A repository with a draft or mutable release and a zip-less latest release.
C7_Witness ==
  /\ Validated /\ ~SomeEligible
  /\ Len(AllReleases) >= 2
  /\ HasLatest
  /\ cresult.skipInfo.reason = "NO_VALID_RELEASES"

\* -------------------------------------------------------------------- main
\* modulePackage, from the '/'-separated parts of process.env.REPO (<<>> when
\* it is unset); null is falsy like undefined.
ModulePackage(parts) ==
  IF parts = <<>> THEN Undefined
  ELSE IF Len(parts) > 1 THEN parts[2]
  ELSE parts[1]

\* The platform compares repository names without regard to case.
LowerCase == [foo |-> "foo", Foo |-> "foo", bar |-> "bar", a |-> "a", modules |-> "modules"]

\* result.repository of the single-repository query: <<>> (null) or <<repository>>.
PlatformLookup(listing, name) ==
  IF \E k \in 1..Len(listing) : LowerCase[listing[k].name] = LowerCase[name]
  THEN <<listing[CHOOSE k \in 1..Len(listing) :
                   LowerCase[listing[k].name] = LowerCase[name]]>>
  ELSE <<>>

\* Math.max(Date.parse(latestReleaseTime), Date.parse(latestBetaReleaseTime),
\*          Date.parse(latestSnapshotReleaseTime))
Max2(x, y) == IF x >= y THEN x ELSE y
SortKey(m) ==
  Max2(m.latestReleaseTime, Max2(m.latestBetaReleaseTime, m.latestSnapshotReleaseTime))

\* modules.sort((a, b) => bTime - aTime): a stable sort, largest key first.
InsertByKeyBeforeTies(sorted, m) ==
  LET n == Cardinality({k \in 1..Len(sorted) : SortKey(sorted[k]) > SortKey(m)})
  IN SubSeq(sorted, 1, n) \o <<m>> \o SubSeq(sorted, n + 1, Len(sorted))
InsertByKey(sorted, m) ==
  LET n == Cardinality({k \in 1..Len(sorted) : SortKey(sorted[k]) >= SortKey(m)})
  IN SubSeq(sorted, 1, n) \o <<m>> \o SubSeq(sorted, n + 1, Len(sorted))

RECURSIVE SortFrom(_, _)
SortFrom(sorted, rest) ==
  IF Len(rest) = 0 THEN sorted
  ELSE SortFrom(InsertByKey(sorted, Head(rest)), Tail(rest))

SortModules(ms) == SortFrom(<<>>, ms)

\* modulesResults.filter(r => r.success).map(r => r.module)
IsSuccessNever(r) == FALSE
IsSuccess(r) == r.status = "success"
SuccessfulModules(rs) ==
  LET ok == SelectSeq(rs, IsSuccess) IN [k \in 1..Len(ok) |-> ok[k].module]

\* The catalog a full run writes.
FullCatalog(modulesResults) == SortModules(SuccessfulModules(modulesResults))

\* The catalog an incremental run writes: filter, unshift, sort.
DropModule(ms, id) == SelectSeq(ms, LAMBDA m : m.moduleId # id)
IncrementalCatalog(old, package, module) ==
  SortModules(<<module>> \o DropModule(old, package))

\* if (convertResult.skipInfo.shouldNotify && convertResult.skipInfo.tagName)
ShouldCommentAlways(skipInfo) == skipInfo.shouldNotify
ShouldComment(skipInfo) == skipInfo.shouldNotify /\ ~Falsy(skipInfo.tagName)

\* pMap(mergedRepositories, ..., 20)
OuterConcurrency == 20

\* const GITHUB_ORG
GITHUB_ORG == "KernelSU-Modules-Repo"

\* The values of REPO the script is started with: unset, a bare name, owner/name,
\* and an owner with an empty name.
EnvChoices ==
  {<<>>, <<"foo">>, <<GITHUB_ORG, "Foo">>, <<GITHUB_ORG, "bar">>, <<GITHUB_ORG, "">>}

\* -------- the repositories the platform lists
BrokenShape(name) ==
  [isDraft |-> FALSE, immutable |-> TRUE, releaseAssets |-> <<ZipType>>,
   props |-> ("id" :> "other") @@ ("version" :> "1.0") @@ ("versionCode" :> "1")]

MutableShape(name) ==
  [isDraft |-> FALSE, immutable |-> FALSE, releaseAssets |-> <<ZipType>>,
   props |-> GoodProps(name)]

\* One acceptable release, published at the given instant.
RepoGood(name, at) ==
  LET rel == Release(GoodShape(name), "v9", "Release", FALSE, at)
  IN Repository(name, "Foo Bar", <<rel>>, <<rel>>)

\* The latest release and the one before it are both broken.
RepoLatestBroken(name) ==
  LET new == Release(BrokenShape(name), "v9", "Release", FALSE, 9)
      old == Release(BrokenShape(name), "v8", "Release", FALSE, 8)
  IN Repository(name, "Foo Bar", <<new>>, <<new, old>>)

\* The latest release is mutable (never probed), an older one is broken.
RepoOlderBroken(name) ==
  LET new == Release(MutableShape(name), "v9", "Release", FALSE, 9)
      old == Release(BrokenShape(name), "v8", "Release", FALSE, 8)
  IN Repository(name, "Foo Bar", <<new>>, <<new, old>>)

\* No release at all.
RepoNoReleases(name) == Repository(name, "Foo Bar", <<>>, <<>>)

\* One acceptable prerelease, published without a title.
RepoUntitled(name) ==
  LET rel == Release(GoodShape(name), "v9", NullName, TRUE, 9)
  IN Repository(name, "Foo Bar", <<rel>>, <<rel>>)

FooChoices ==
  { RepoGood("foo", 5), RepoGood("foo", 7), RepoLatestBroken("foo"),
    RepoOlderBroken("foo"), RepoNoReleases("foo"), RepoUntitled("foo") }

BarChoices == { RepoGood("bar", 5), RepoGood("bar", 6), RepoUntitled("bar") }

\* A listing holds each repository name at most once, in either order.
Listings ==
  {<<>>} \cup {<<f>> : f \in FooChoices} \cup {<<b>> : b \in BarChoices}
  \cup {<<f, b>> : f \in FooChoices, b \in BarChoices}
  \cup {<<b, f>> : f \in FooChoices, b \in BarChoices}
  \cup
  \* a reserved name, a name too short, no description, and a latest
  \* release without a version next to an older one that is sound
  LET versionless ==
        Release([GoodShape("foo") EXCEPT
                   !.props = ("id" :> "foo") @@ ("version" :> "") @@ ("versionCode" :> "1")],
                "v9", "Release", FALSE, 9)
      older == Release(GoodShape("foo"), "v8", "Release", FALSE, 8)
  IN { <<RepoGood("modules", 5)>>, <<RepoGood("a", 5)>>,
       <<[RepoGood("foo", 5) EXCEPT !.description = ""]>>,
       <<Repository("foo", "Foo Bar", <<versionless>>, <<versionless, older>>)>> }

\* result.organization.repositories.edges
Edges(listing) == [k \in 1..Len(listing) |-> [node |-> listing[k]]]

\* ------------------------------------------------------ commentOnRelease
GITHUB_BOTS == {"github-actions[bot]", "dependabot[bot]", "renovate[bot]"}

\* A REST call that rejects.
Failed == "<failed>"

\* What the REST API answers to the calls of one commentOnRelease:
\* getReleaseByTag (the release author's login, Undefined when the release has
\* no author), listCollaborators, getRef, getTag and createCommitComment.
RestChoices ==
  [release :
     {[ok |-> FALSE, author |-> Failed]}
       \cup {[ok |-> TRUE, author |-> a] : a \in {Undefined, "github-actions[bot]", "alice"}},
   collaborators :
     {NotListed}
       \cup {[ok |-> TRUE, list |-> l] :
               l \in {<<>>, <<"dependabot[bot]">>, <<"alice", "dependabot[bot]", "bob">>}},
   ref :
     {[ok |-> FALSE, type |-> "none", sha |-> Failed],
      [ok |-> TRUE, type |-> "commit", sha |-> "c1"],
      [ok |-> TRUE, type |-> "tag", sha |-> "t1"]},
   tag : {[ok |-> FALSE, sha |-> Failed], [ok |-> TRUE, sha |-> "c1"]},
   create : BOOLEAN]

\* strs.join(' ')
RECURSIVE JoinSpace(_)
JoinSpace(strs) ==
  IF strs = <<>> THEN ""
  ELSE IF Len(strs) = 1 THEN strs[1]
  ELSE strs[1] \o " " \o JoinSpace(Tail(strs))

\* .map(c => `@${c.login}`)
AtLogins(logins) == [i \in 1..Len(logins) |-> "@" \o logins[i]]

\* Whether commentOnRelease has to list the collaborators.
AuthorUsable(author) == ~Falsy(author) /\ author \notin GITHUB_BOTS

\* Collaborators are mentioned as they are listed, bots included.
MentionsWithBots(author, collaborators) ==
  IF AuthorUsable(author) THEN "@" \o author
  ELSE IF ~collaborators.ok THEN ""
  ELSE JoinSpace(AtLogins(collaborators.list))

\* The mentions that open the comment body.
Mentions(author, collaborators) ==
  IF AuthorUsable(author) THEN "@" \o author
  ELSE IF ~collaborators.ok THEN ""
  ELSE JoinSpace(AtLogins(SelectSeq(collaborators.list, LAMBDA c : c \notin GITHUB_BOTS)))

\* The commit the comment goes to: the tag's object, or the commit an annotated
\* tag points to when getTag answers.
CommitSha(ref, tag) == IF ref.type = "tag" /\ tag.ok THEN tag.sha ELSE ref.sha

\* The first call whose rejection leaves the try block.
CommentError(rest) ==
  IF ~rest.release.ok THEN "getReleaseByTag"
  ELSE IF ~rest.ref.ok THEN "getRef"
  ELSE IF ~rest.create THEN "createCommitComment"
  ELSE "none"

\* A comment created twice.
CreateCommitCommentTwice(posted, c) == posted \o <<c, c>>

\* octokit.repos.createCommitComment
CreateCommitComment(posted, c) == Append(posted, c)

\* A catch block that lets the error through.
OuterCatchRethrows(error) == [raised |-> error # "none", logged |-> FALSE]

\* catch (err) { console.error(`Failed to comment on ...`) }
OuterCatch(error) == [raised |-> FALSE, logged |-> error # "none"]

\* commentOnRelease(repoName, tagName, skipInfo) against the answers rest.
CommentOnRelease(repoName, tagName, skipInfo, rest) ==
  LET error == CommentError(rest)
      author == rest.release.author
      listed == rest.release.ok /\ ~AuthorUsable(author)
      collaborators == IF listed THEN rest.collaborators ELSE NotListed
      c == [commit_sha |-> CommitSha(rest.ref, rest.tag),
            mentions |-> Mentions(author, collaborators),
            title |-> skipInfo.reason]
      caught == OuterCatch(error)
  IN [state |-> "finished", repoName |-> repoName, tagName |-> tagName,
      created |-> error = "none", error |-> error, author |-> author,
      listed |-> listed, collaborators |-> collaborators,
      posted |-> IF error = "none" THEN CreateCommitComment(<<>>, c) ELSE <<>>,
      logged |-> caught.logged, raised |-> caught.raised]

\* ------------------------------------------------------------ the process
\* The variable is unset, or holds a token.
TokenChoices == {Undefined, "ghp_token"}

\* The token check is missing.
TokenMissingNever(token) == FALSE

\* if (!GRAPHQL_TOKEN)
TokenMissing(token) == Falsy(token)

\* -------- the steps of main
\* pMap's state once the call is over and a new process starts.
PMapReset ==
  /\ caller' = "none"
  /\ items' = <<>>
  /\ concurrency' = 0
  /\ idx' = 0
  /\ ppc' = "idle"
  /\ st' = <<>>
  /\ executing' = <<>>
  /\ results' = <<>>
  /\ awaited' = {}
  /\ awaitOutcome' = "none"
  /\ settleOrder' = <<>>

\* if (modulePackage && fs.existsSync(modulesCachePath))
IncrementalIgnoringFile(parts, file) == ~Falsy(ModulePackage(parts))
Incremental(parts, file) == ~Falsy(ModulePackage(parts)) /\ file # NoFile

\* main().catch(console.error) prints the error main rejected with.
Uncaught == "uncaught error"

\* process.exit(1) does not end the process: main goes on to the write.
ExitFallsThrough(code) ==
  mpc' = (IF code = 1 THEN "writing" ELSE "exited") /\ exitCode' = code

\* The process ends with the given status.
Exit(code) == mpc' = "exited" /\ exitCode' = code

\* The script up to its first await: the token check, then main up to the first
\* GraphQL request, which the mode it chose issues.
MainStart ==
  /\ mpc = "start"
  /\ IF TokenMissing(GRAPHQL_TOKEN)
     THEN /\ stderr' = Append(stderr, "GRAPHQL_TOKEN environment variable is not set")
          /\ Exit(1)
          /\ UNCHANGED <<mode, networkIO>>
     ELSE /\ IF Incremental(REPO, catalog)
             THEN mode' = "incremental" /\ mpc' = "request"
             ELSE mode' = "full" /\ mpc' = "listing"
          /\ networkIO' = TRUE
          /\ UNCHANGED <<stderr, exitCode>>
  /\ UNCHANGED <<REPO, catalog, platform, fetched, convertResult, modules, comment,
                 wrote, runs, GRAPHQL_TOKEN>>
  /\ UNCHANGED <<pvars, cvars, probing, propFile>>

\* Incremental mode: the single-repository query answers.
IncResponse ==
  /\ mpc = "request"
  /\ LET result == PlatformLookup(platform, ModulePackage(REPO))
     IN IF result = <<>>
        THEN /\ Exit(0)
             /\ stderr' = Append(stderr, "Repository not found")
             /\ UNCHANGED fetched
        ELSE fetched' = result /\ mpc' = "converting" /\ UNCHANGED <<exitCode, stderr>>
  /\ UNCHANGED <<REPO, catalog, platform, mode, convertResult, modules, comment,
                 wrote, runs>>
  /\ UNCHANGED <<GRAPHQL_TOKEN, networkIO>>
  /\ UNCHANGED <<pvars, cvars, probing, propFile>>

\* Incremental mode: convert2json settled. A rejection leaves main through
\* main().catch(console.error); a failure comments or not and exits with 1; a
\* success replaces the module in the catalog.
IncConverted ==
  /\ mpc = "converting"
  /\ LET out == ConvertOutcome(fetched[1])
     IN /\ convertResult' = out
        /\ IF out.status = "throw"
           THEN /\ Exit(0)
                /\ stderr' = Append(stderr, Uncaught)
                /\ UNCHANGED <<modules, comment>>
           ELSE IF out.status = "skip"
           THEN IF ShouldComment(out.skipInfo)
                THEN /\ comment' = [NoComment EXCEPT
                                      !.state = "running",
                                      !.repoName = ModulePackage(REPO),
                                      !.tagName = out.skipInfo.tagName]
                     /\ mpc' = "commenting"
                     /\ UNCHANGED <<modules, exitCode, stderr>>
                ELSE /\ Exit(1)
                     /\ stderr' = Append(stderr, "Incremental build failed")
                     /\ UNCHANGED <<modules, comment>>
           ELSE /\ modules' = IncrementalCatalog(catalog, ModulePackage(REPO), out.module)
                /\ mpc' = "writing"
                /\ UNCHANGED <<comment, exitCode, stderr>>
  /\ UNCHANGED <<REPO, catalog, platform, mode, fetched, wrote, runs>>
  /\ UNCHANGED <<GRAPHQL_TOKEN, networkIO>>
  /\ UNCHANGED <<pvars, cvars, probing, propFile>>

\* commentOnRelease settles, with the comment created or with the error of a
\* REST call logged; main then logs the failure of the build and exits with 1.
\* An error that left commentOnRelease would reject main instead.
CommentFinish ==
  /\ mpc = "commenting"
  /\ \E rest \in RestChoices :
       LET done == CommentOnRelease(comment.repoName, comment.tagName,
                                    convertResult.skipInfo, rest)
       IN /\ comment' = done
          /\ IF done.raised
             THEN /\ Exit(0)
                  /\ stderr' = Append(stderr, Uncaught)
             ELSE /\ Exit(1)
                  /\ stderr' = stderr
                                 \o (IF done.logged THEN <<"Failed to comment">> ELSE <<>>)
                                 \o <<"Incremental build failed">>
  /\ UNCHANGED <<REPO, catalog, platform, mode, fetched, convertResult, modules,
                 wrote, runs>>
  /\ UNCHANGED <<GRAPHQL_TOKEN, networkIO>>
  /\ UNCHANGED <<pvars, cvars, probing, propFile>>

\* Full mode: the listing is paged in and handed to pMap.
FullListed ==
  /\ mpc = "listing"
  /\ PMapEnter("main", Edges(platform), OuterConcurrency)
  /\ mpc' = "mapping"
  /\ UNCHANGED <<REPO, catalog, platform, mode, fetched, convertResult, modules,
                 comment, exitCode, wrote, runs>>
  /\ UNCHANGED <<GRAPHQL_TOKEN, networkIO, stderr>>
  /\ UNCHANGED <<cvars, probing, propFile>>

\* Full mode: the steps of the outer pMap.
MainMap ==
  /\ mpc = "mapping"
  /\ PMapStep

\* Full mode: pMap returned; the catalog is written.
FullFinish ==
  /\ mpc = "mapping"
  /\ ppc = "returned"
  /\ modules' = FullCatalog(results)
  /\ mpc' = "writing"
  /\ UNCHANGED <<REPO, catalog, platform, mode, fetched, convertResult, comment,
                 exitCode, wrote, runs>>
  /\ UNCHANGED <<GRAPHQL_TOKEN, networkIO, stderr>>
  /\ UNCHANGED <<pvars, cvars, probing, propFile>>

\* Full mode: pMap rejected; main rejects with it and main().catch(console.error)
\* logs the error.
FullAbort ==
  /\ mpc = "mapping"
  /\ ppc = "rejected"
  /\ Exit(0)
  /\ stderr' = Append(stderr, Uncaught)
  /\ UNCHANGED <<REPO, catalog, platform, mode, fetched, convertResult, modules,
                 comment, wrote, runs>>
  /\ UNCHANGED <<GRAPHQL_TOKEN, networkIO>>
  /\ UNCHANGED <<pvars, cvars, probing, propFile>>

\* fs.writeFileSync(modulesCachePath, JSON.stringify(modules)) opens the file
\* itself for writing, which truncates it ...
WriteOpen ==
  /\ mpc = "writing"
  /\ catalog' = Truncated
  /\ mpc' = "flushing"
  /\ UNCHANGED <<REPO, platform, mode, fetched, convertResult, modules, comment,
                 exitCode, wrote, runs>>
  /\ UNCHANGED <<GRAPHQL_TOKEN, networkIO, stderr>>
  /\ UNCHANGED <<pvars, cvars, probing, propFile>>

\* ... and then writes the text; main returns.
WriteFlush ==
  /\ mpc = "flushing"
  /\ catalog' = modules
  /\ wrote' = TRUE
  /\ Exit(0)
  /\ UNCHANGED <<REPO, platform, mode, fetched, convertResult, modules, comment, runs>>
  /\ UNCHANGED <<GRAPHQL_TOKEN, networkIO, stderr>>
  /\ UNCHANGED <<pvars, cvars, probing, propFile>>

\* -------- runs of the script, one after the other, on one cache directory
MaxRuns == 2

NextRun ==
  /\ mpc = "exited"
  /\ runs < MaxRuns
  /\ runs' = runs + 1
  /\ REPO' \in EnvChoices
  /\ platform' \in Listings
  /\ mode' = "none"
  /\ mpc' = "start"
  /\ fetched' = <<>>
  /\ convertResult' = NoResult
  /\ modules' = <<>>
  /\ comment' = NoComment
  /\ exitCode' = 0
  /\ wrote' = FALSE
  /\ GRAPHQL_TOKEN' \in TokenChoices
  /\ networkIO' = FALSE
  /\ stderr' = <<>>
  /\ PMapReset
  /\ UNCHANGED <<catalog, probing, propFile>>
  /\ UNCHANGED cvars

InitMain ==
  /\ REPO \in EnvChoices
  /\ platform \in Listings
  /\ catalog = NoFile
  /\ mode = "none"
  /\ mpc = "start"
  /\ fetched = <<>>
  /\ convertResult = NoResult
  /\ modules = <<>>
  /\ comment = NoComment
  /\ exitCode = 0
  /\ wrote = FALSE
  /\ runs = 1
  /\ GRAPHQL_TOKEN \in TokenChoices
  /\ networkIO = FALSE
  /\ stderr = <<>>
  /\ probing = NoProbing
  /\ propFile = NoPropFile
  /\ PMapIdle
  /\ ConvertIdle

NextMain ==
  \/ MainStart
  \/ IncResponse
  \/ IncConverted
  \/ CommentFinish
  \/ FullListed
  \/ MainMap
  \/ FullFinish
  \/ FullAbort
  \/ WriteOpen
  \/ WriteFlush
  \/ NextRun

SpecMain == InitMain /\ [][NextMain]_vars

\* -------- what the claims about main speak of
Ended == mpc = "exited"
ValidatorFailed == mode = "incremental" /\ convertResult.status = "skip"
CatalogHolds(m) == catalog # NoFile /\ \E k \in 1..Len(catalog) : catalog[k] = m
Validates(r) == ConvertOutcome(r).status = "success"

\* C3, as claimed: in full mode a failure raised while processing one
\* repository is fatal only for that repository: the run completes and writes
\* a catalog that holds every peer repository that validates.
C3_AsClaimed ==
  (Ended /\ mode = "full") =>
    /\ wrote
    /\ \A k \in 1..Len(platform) :
         Validates(platform[k]) => CatalogHolds(ConvertOutcome(platform[k]).module)

\* C8: every commentOnRelease call is made in incremental mode, targets the tag
\* of the repository's declared latest release, and that release passed the
\* pre-filter and failed deep validation in this run.
C8_CommentOnlyOnBrokenLatest ==
  comment.state # "none" =>
    /\ mode = "incremental"
    /\ fetched # <<>>
    /\ fetched[1].latestRelease # <<>>
    /\ comment.tagName = fetched[1].latestRelease[1].tagName
    /\ \E k \in 1..Len(MergeLatest(fetched[1])) :
         LET rel == MergeLatest(fetched[1])[k]
         IN /\ rel.tagName = comment.tagName
            /\ PreFilter(rel)
            /\ ReleaseMapper(fetched[1], rel).val = NullResult

\* A comment was created for a repository with two broken releases.
C8_Witness ==
  /\ comment.state = "finished"
  /\ comment.created
  /\ Len(fetched[1].releases) = 2
  /\ comment.tagName = "v9"

\* C9: in incremental mode, when the validator fails, commentOnRelease is
\* called if and only if the SkipInfo has shouldNotify = true and a tagName,
\* and the process exits with status 1, after the call has settled.
C9_NotifyThenExitNonZero ==
  ValidatorFailed =>
    /\ (comment.state # "none") <=>
         (convertResult.skipInfo.shouldNotify /\ ~Falsy(convertResult.skipInfo.tagName))
    /\ Ended => (exitCode = 1 /\ comment.state # "running")
    /\ ~Ended => (mpc = "commenting" /\ comment.state = "running")

\* The process exited with 1 after the comment attempt had failed.
C9_Witness ==
  /\ ValidatorFailed /\ Ended
  /\ exitCode = 1
  /\ comment.state = "finished"
  /\ ~comment.created

\* C10, as claimed: in every catalog written by a full or an incremental run,
\* module ids are pairwise distinct, after any sequence of runs.
C10_AsClaimed ==
  catalog # NoFile =>
    \A i, j \in 1..Len(catalog) : i # j => catalog[i].moduleId # catalog[j].moduleId

\* -------- what the claims about the written catalog speak of
CountIn(s, m) == Cardinality({k \in 1..Len(s) : s[k] = m})
IdCount(s, id) == Cardinality({k \in 1..Len(s) : s[k].moduleId = id})

\* The step of a successful incremental run that builds the catalog to write.
IncrementalBuilt == mpc = "converting" /\ mpc' = "writing"

\* The step of a full run that builds the catalog to write.
FullBuilt == mpc = "mapping" /\ mpc' = "writing"

\* C11, as claimed: a successful incremental run for repository R writes a
\* catalog that holds the freshly derived module for R in place of any prior
\* entry for R (or newly added), and every other entry of the prior catalog
\* unchanged, with none added or removed.
C11_AsClaimed ==
  [][IncrementalBuilt =>
       LET R == fetched[1].name
           fresh == convertResult'.module
       IN /\ IdCount(modules', R) = 1
          /\ CountIn(modules', fresh) = 1
          /\ \A k \in 1..Len(catalog) :
               catalog[k].moduleId # R =>
                 CountIn(modules', catalog[k]) = CountIn(catalog, catalog[k])
          /\ \A k \in 1..Len(modules') :
               modules'[k].moduleId # R =>
                 CountIn(catalog, modules'[k]) = CountIn(modules', modules'[k])]_vars

\* C12, as claimed: an incremental update of a repository whose fetched data is
\* unchanged since the catalog was written (the module derived from it is the
\* catalog's entry) yields a catalog identical to the previous one, for every
\* prior catalog the tool can produce.
C12_AsClaimed ==
  [][(IncrementalBuilt /\ CountIn(catalog, convertResult'.module) >= 1) =>
       modules' = catalog]_vars

\* C13, as claimed: catalog writes are atomic with respect to concurrent
\* readers: at any point of a full or incremental run a reader of modules.json
\* finds the complete previous catalog or the complete new one, never a
\* truncated or partial file.
C13_AsClaimed == catalog # Truncated

\* The keys of a sequence of modules, and its modules with a given key, in order.
KeysOf(s) == {SortKey(s[k]) : k \in 1..Len(s)}
WithKey(s, t) == SelectSeq(s, LAMBDA m : SortKey(m) = t)

\* out holds the modules of incoming, largest key first, modules with equal
\* keys in the order they have in incoming.
StableSortOf(out, incoming) ==
  /\ \A k \in 1..(Len(out) - 1) : SortKey(out[k]) >= SortKey(out[k + 1])
  /\ \A t \in KeysOf(out) \cup KeysOf(incoming) : WithKey(out, t) = WithKey(incoming, t)

\* The modules of the listed repositories that validate, in listing order.
ListedModules ==
  SuccessfulModules([k \in 1..Len(platform) |-> ConvertOutcome(platform[k])])

\* C14: every catalog written by a full or incremental run is ordered
\* non-increasing by max(latestReleaseTime, latestBetaReleaseTime,
\* latestSnapshotReleaseTime), and modules with equal keys keep their incoming
\* order: listing order in full mode; the updated module first, then the order
\* of the prior catalog, in incremental mode.
C14_SortedStable ==
  [][/\ FullBuilt => StableSortOf(modules', ListedModules)
     /\ IncrementalBuilt =>
          StableSortOf(modules', <<convertResult'.module>>
                                   \o DropModule(catalog, ModulePackage(REPO)))
     /\ wrote' => catalog' = modules']_vars

\* An incremental run wrote its module ahead of a module with the same key.
C14_Witness ==
  /\ mpc = "exited" /\ mode = "incremental" /\ wrote
  /\ Len(catalog) >= 2
  /\ SortKey(catalog[1]) = SortKey(catalog[2])
  /\ catalog[1].moduleId = "foo"
  /\ catalog[2].moduleId = "bar"

\* C15, as claimed: if the repository targeted by an incremental run does not
\* exist on the platform, the process exits with non-zero status.
C15_AsClaimed ==
  (mpc = "exited" /\ mode = "incremental"
     /\ PlatformLookup(platform, ModulePackage(REPO)) = <<>>) => exitCode # 0

\* The modules of the listed repositories whose validation succeeds.
ValidatingModules ==
  {ConvertOutcome(platform[k]).module : k \in {j \in 1..Len(platform) : Validates(platform[j])}}

\* C19: in a full run no commit comment is ever dispatched, whatever SkipInfo
\* the failing repositories produce; the written catalog holds the modules of
\* the repositories that validate and nothing of those that fail.
C19_FullRunNeverComments ==
  /\ mode = "full" => comment = NoComment
  /\ (mode = "full" /\ wrote) =>
       /\ Range(catalog) = ValidatingModules
       /\ \A k \in 1..Len(platform) :
            ~Validates(platform[k]) => IdCount(catalog, platform[k].name) = 0

\* A full run wrote a catalog although a listed repository failed with
\* shouldNotify = true and a tagName.
C19_Witness ==
  /\ mpc = "exited" /\ mode = "full" /\ wrote
  /\ Len(catalog) >= 1
  /\ \E k \in 1..Len(platform) :
       /\ ConvertOutcome(platform[k]).status = "skip"
       /\ ConvertOutcome(platform[k]).skipInfo.shouldNotify
       /\ ~Falsy(ConvertOutcome(platform[k]).skipInfo.tagName)

\* REPO names a repository: a bare name, or owner/name.
NamesRepository(parts) == parts # <<>> /\ parts[Len(parts)] # ""

\* C20: a run executes in incremental mode if and only if REPO names a
\* repository (as owner/name or bare name) and a prior catalog file exists; in
\* every other case it executes a full rebuild. (The file is untouched until
\* the run writes it.)
C20_ModeChoice ==
  mpc \in {"request", "converting", "commenting", "listing", "mapping", "writing"} =>
    /\ mode \in {"incremental", "full"}
    /\ mode = "incremental" <=> (NamesRepository(REPO) /\ catalog # NoFile)

\* REPO names a repository but there is no catalog file: a full rebuild.
C20_Witness ==
  /\ mpc = "mapping" /\ mode = "full"
  /\ NamesRepository(REPO)
  /\ catalog = NoFile

\* -------- more claims about convert2json
ModuleLevelReasons == {"RESERVED_NAME", "INVALID_NAME", "NO_DESCRIPTION"}

\* The outcome is a failure with this reason, shouldNotify = true and no tagName.
FailsWith(reason) ==
  /\ cresult.status = "skip"
  /\ cresult.skipInfo.reason = reason
  /\ cresult.skipInfo.shouldNotify
  /\ cresult.skipInfo.tagName = Undefined

\* C16: the module-level predicates are evaluated in the order reserved name,
\* invalid name format, missing or empty description; the first that fails
\* gives the SkipInfo reason, always with shouldNotify = true and no tagName;
\* an identifier of fewer than two characters yields INVALID_NAME.
C16_ModuleLevelOrder ==
  cpc = "done" =>
    /\ IF repo.name \in RESERVED_NAMES THEN FailsWith("RESERVED_NAME")
       ELSE IF ~NameMatches(repo.name) THEN FailsWith("INVALID_NAME")
       ELSE IF Falsy(repo.description) THEN FailsWith("NO_DESCRIPTION")
       ELSE cresult.status = "skip" => cresult.skipInfo.reason \notin ModuleLevelReasons
    /\ (Len(Spelling[repo.name]) < 2 /\ repo.name \notin RESERVED_NAMES) =>
         FailsWith("INVALID_NAME")

\* A reserved name that also fails the format and has no description.
C16_Witness ==
  /\ cpc = "done"
  /\ repo.name = ".github"
  /\ Falsy(repo.description)
  /\ FailsWith("RESERVED_NAME")

\* The skip records pushed for a tag.
SkipsFor(tag) == SelectSeq(releaseSkipReasons, LAMBDA s : s.tagName = tag)

\* C17: for a release that passed the pre-filter, deep validation applies its
\* checks in order and the first failing one wins: an empty PropertyMap gives
\* MISSING_MODULE_PROP; else an id different from the repository identifier
\* gives MODULE_ID_MISMATCH with both values as details; else a missing or
\* empty version or versionCode gives MISSING_VERSION with both values as
\* details; else the release is accepted with version and versionCode taken
\* from the PropertyMap.
C17_DeepValidationOrder ==
  (cpc = "done" /\ ModuleLevelOk) =>
    \A k \in 1..Len(items) :
      LET rel == items[k]
          p == ExtractModulePropsFromZip(rel)
          id == PropGet(p, "id")
          version == PropGet(p, "version")
          versionCode == PropGet(p, "versionCode")
          skipped(reason, details) ==
            /\ results[k] = NullResult
            /\ SkipsFor(rel.tagName) = <<SkipRecord(rel.tagName, reason, details)>>
      IN IF DOMAIN p = {} THEN skipped("MISSING_MODULE_PROP", NoDetails)
         ELSE IF id # repo.name
           THEN skipped("MODULE_ID_MISMATCH", [repoName |-> repo.name, moduleId |-> id])
         ELSE IF version \in {Undefined, ""} \/ versionCode \in {Undefined, ""}
           THEN skipped("MISSING_VERSION", [version |-> version, versionCode |-> versionCode])
         ELSE /\ results[k] # NullResult
              /\ results[k].tagName = rel.tagName
              /\ results[k].version = p["version"]
              /\ results[k].versionCode = p["versionCode"]
              /\ SkipsFor(rel.tagName) = <<>>

\* A release whose module.prop has a foreign id and no version at all was
\* skipped for its id.
C17_Witness ==
  /\ cpc = "done" /\ ModuleLevelOk
  /\ Len(items) = 1
  /\ PropGet(items[1].props, "id") = "other"
  /\ "version" \notin DOMAIN items[1].props
  /\ results[1] = NullResult
  /\ releaseSkipReasons[1].reason = "MODULE_ID_MISMATCH"

\* A release that is a draft, is not immutable, or has no application/zip asset.
Ineligible(rel) == rel.isDraft \/ ~rel.immutable \/ ~HasZipAsset(rel)

\* C18: a release that is a draft, is not immutable, or has no application/zip
\* asset is dropped silently: it is never handed to the probe, never becomes an
\* accepted release, and contributes neither a skip record nor the tag of a
\* SkipInfo.
C18_IneligibleDroppedSilently ==
  ModuleLevelOk =>
    \A k \in 1..Len(AllReleases) :
      Ineligible(AllReleases[k]) =>
        LET tag == AllReleases[k].tagName
        IN /\ \A j \in 1..Len(items) : items[j].tagName # tag
           /\ \A j \in 1..Len(results) :
                results[j] \notin {Hole, NullResult} => results[j].tagName # tag
           /\ SkipsFor(tag) = <<>>
           /\ cresult.status = "skip" => cresult.skipInfo.tagName # tag
           /\ cresult.status = "success" =>
                \A j \in 1..Len(cresult.module.releases) :
                  cresult.module.releases[j].tagName # tag

\* A mutable release with a sound archive left no trace next to a broken
\* latest release.
C18_Witness ==
  /\ cpc = "done" /\ ModuleLevelOk
  /\ cresult.status = "skip"
  /\ ~Falsy(cresult.skipInfo.tagName)
  /\ \E k \in 1..Len(AllReleases) :
       /\ ~AllReleases[k].isDraft /\ ~AllReleases[k].immutable
       /\ HasZipAsset(AllReleases[k])

C24_AtMostOneComment == Len(comment.posted) <= 1

\* A run that created its comment.
C24_Witness ==
  /\ Ended
  /\ Len(comment.posted) = 1
  /\ comment.tagName = convertResult.skipInfo.tagName

\* The logins a comment has to mention: the release author when there is one
\* and it is not a bot, else the listed collaborators that are not bots.
Addressees ==
  IF comment.author \notin {Undefined, ""} \cup GITHUB_BOTS
  THEN <<comment.author>>
  ELSE IF comment.collaborators.ok
  THEN SelectSeq(comment.collaborators.list, LAMBDA c : c \notin GITHUB_BOTS)
  ELSE <<>>

\* C25: a comment whose release lookup, tag resolution and creation succeed is
\* posted, and it mentions exactly the release author when that login is
\* present and not a bot, otherwise the non-bot direct collaborators separated
\* by spaces, and nobody when neither yields a login or the listing fails.
C25_Addressees ==
  (comment.state = "finished" /\ comment.error = "none") =>
    /\ comment.created
    /\ Len(comment.posted) = 1
    /\ comment.posted[1].mentions = JoinSpace(AtLogins(Addressees))
    /\ comment.listed <=> (comment.author \in {Undefined, ""} \cup GITHUB_BOTS)

\* The release was published by a bot and the collaborators could not be
\* listed: the comment is posted without mentions.
C25_Witness ==
  /\ comment.state = "finished"
  /\ comment.created
  /\ comment.author = "github-actions[bot]"
  /\ comment.listed
  /\ ~comment.collaborators.ok
  /\ comment.posted[1].mentions = ""

\* C26: with GRAPHQL_TOKEN unset the process writes its diagnostic and exits
\* with status 1 without having issued a network request or started a probe.
C26_NoTokenNoNetwork ==
  (GRAPHQL_TOKEN = Undefined /\ mpc # "start") =>
    /\ Ended
    /\ exitCode = 1
    /\ ~networkIO
    /\ mode = "none"
    /\ stderr = <<"GRAPHQL_TOKEN environment variable is not set">>

\* A run without the token, over a catalog an earlier run wrote.
C26_Witness ==
  /\ GRAPHQL_TOKEN = Undefined
  /\ Ended
  /\ exitCode = 1
  /\ runs = 2
  /\ catalog # NoFile

\* C27: in every Module convert2json produces the author names are pairwise
\* distinct.
C27_AsClaimed ==
  (cpc = "done" /\ cresult.status = "success") =>
    LET authors == cresult.module.authors
    IN \A i, j \in 1..Len(authors) : authors[i].name = authors[j].name => i = j

\* A release whose probe subprocess failed or printed nothing.
ProbeFailed(rel) == rel.probe # "stdout" \/ DOMAIN rel.props = {}

\* C28: a release that passed the pre-filter and whose probe fails (the
\* subprocess cannot be run, exits with a non-zero status, prints too much or
\* prints nothing) does not end convert2json: it yields no ModuleRelease and
\* exactly one MISSING_MODULE_PROP skip record, and every other release that
\* passed the pre-filter is still accepted or skipped on its own account.
C28_ProbeFailureNotFatal ==
  (cpc = "done" /\ ModuleLevelOk /\ \E k \in 1..Len(items) : ProbeFailed(items[k])) =>
    /\ Len(results) = Len(items)
    /\ \A k \in 1..Len(items) :
         IF ProbeFailed(items[k])
         THEN /\ results[k] = NullResult
              /\ SkipsFor(items[k].tagName)
                   = <<SkipRecord(items[k].tagName, "MISSING_MODULE_PROP", NoDetails)>>
         ELSE \/ results[k] # NullResult /\ results[k].tagName = items[k].tagName
              \/ /\ results[k] = NullResult
                 /\ Len(SkipsFor(items[k].tagName)) = 1
                 /\ SkipsFor(items[k].tagName)[1].reason # "MISSING_MODULE_PROP"

\* runzip exited with a non-zero status on the latest release; the release
\* before it was probed and accepted, and the repository validated.
C28_Witness ==
  /\ cpc = "done"
  /\ Len(items) = 2
  /\ items[1].probe = "non-zero exit"
  /\ results[1] = NullResult
  /\ results[2] # NullResult
  /\ cresult.status = "success"

\* The position of the first release of rels that passes Test, 0 when none does.
FirstAt(rels, Test(_)) ==
  IF \E k \in 1..Len(rels) : Test(rels[k])
  THEN CHOOSE k \in 1..Len(rels) : Test(rels[k]) /\ \A m \in 1..(k - 1) : ~Test(rels[m])
  ELSE 0

\* The accepted releases, in list order.
AcceptedReleases == SelectSeq(results, NotNull)

\* C29: over the accepted releases in list order, latestRelease is the first
\* non-prerelease; latestBetaRelease the first prerelease whose name does not
\* start with snapshot/nightly, else latestRelease; latestSnapshotRelease the
\* first prerelease whose name does, else latestBetaRelease; each time field of
\* the Module is the publishedAt of its release, or the epoch when there is none.
C29_AsClaimed ==
  (cpc = "done" /\ ModuleLevelOk /\ AcceptedReleases # <<>>) =>
    LET rels == AcceptedReleases
        stable(v) == ~v.isPrerelease
        beta(v) == v.isPrerelease /\ v.name \notin SnapshotNames
        snapshot(v) == v.isPrerelease /\ v.name \in SnapshotNames
        latest == FirstAt(rels, stable)
        latestBeta == IF FirstAt(rels, beta) # 0 THEN FirstAt(rels, beta) ELSE latest
        latestSnapshot ==
          IF FirstAt(rels, snapshot) # 0 THEN FirstAt(rels, snapshot) ELSE latestBeta
        time(at) == IF at = 0 \/ rels[at].publishedAt = NullTime THEN Epoch
                    ELSE rels[at].publishedAt
    IN /\ cresult.status = "success"
       /\ cresult.module.latestRelease
            = (IF latest = 0 THEN Undefined ELSE rels[latest].name)
       /\ cresult.module.latestReleaseTime = time(latest)
       /\ cresult.module.latestBetaReleaseTime = time(latestBeta)
       /\ cresult.module.latestSnapshotReleaseTime = time(latestSnapshot)

\* --------------------- the full run with its probes observed one by one
\* The outer pMap call of main and the inner pMap call of every convert2json
\* it has started, each as a record of pMap's locals: n items, concurrency k,
\* and idx, pc, st, executing, awaited, outcome as in the variables of a
\* single call.
MaxRepos == 3
MaxProbes == 3

\* A call that takes no notice of its concurrency argument.
CallUnlimited(n, k) ==
  [n |-> n, k |-> n + 1, idx |-> 0, pc |-> "loop", st |-> [j \in 1..n |-> "new"],
   executing |-> <<>>, awaited |-> {}, outcome |-> "none"]

\* pMap(items, mapper, k) on entry, for n items.
Call(n, k) ==
  [n |-> n, k |-> k, idx |-> 0, pc |-> "loop", st |-> [j \in 1..n |-> "new"],
   executing |-> <<>>, awaited |-> {}, outcome |-> "none"]

\* pMap's synchronous code from the top of the for loop to its next await.
RECURSIVE RunLoop(_)
RunLoop(p) ==
  IF p.idx < p.n
  THEN LET i == p.idx + 1
           ex == Append(p.executing, i)
           s1 == [p.st EXCEPT ![i] = "queued"]
           q == [p EXCEPT !.idx = i, !.st = s1, !.executing = ex]
       IN IF RaceThreshold(Len(ex), p.k)
          THEN [q EXCEPT !.pc = "race", !.awaited = Range(ex),
                         !.outcome = AwaitAtCall("race", Range(ex), s1)]
          ELSE RunLoop(q)
  ELSE [p EXCEPT !.pc = "all", !.awaited = Range(p.executing),
                 !.outcome = AwaitAtCall("all", Range(p.executing), p.st)]

\* The pending race / all of call p after its promise j settled.
AwaitAfterIn(p, j, stnew) ==
  IF p.pc \notin {"race", "all"} \/ p.outcome # "pending" \/ j \notin p.awaited
  THEN p.outcome
  ELSE IF stnew[j] = "failed" THEN "err"
  ELSE IF stnew[j] # "spliced" THEN "pending"
  ELSE IF p.pc = "race" THEN "ok"
  ELSE IF \A m \in p.awaited : stnew[m] = "spliced" THEN "ok"
  ELSE "pending"

\* The mapper of item j of call p may be invoked: it is the first queued one.
CanStart(p, j) == p.st[j] = "queued" /\ \A m \in 1..(j - 1) : p.st[m] # "queued"

\* The mapper's promise resolved.
Resolved(p, j) == [p EXCEPT !.st[j] = "resolved"]

\* The mapper's promise rejected.
Rejected(p, j) ==
  LET s1 == [p.st EXCEPT ![j] = "failed"]
  IN [p EXCEPT !.st = s1, !.outcome = AwaitAfterIn(p, j, s1)]

\* The two then callbacks of item j: the result is stored, the promise is
\* spliced out of executing.
Spliced(p, j) ==
  LET s1 == [p.st EXCEPT ![j] = "spliced"]
  IN [p EXCEPT !.st = s1, !.executing = SpliceOne(p.executing, IndexOf(p.executing, j)),
               !.outcome = AwaitAfterIn(p, j, s1)]

\* pMap after its await: it throws, returns, or runs the loop to the next await.
Resumed(p) ==
  IF p.outcome = "err" THEN [p EXCEPT !.pc = "rejected", !.outcome = "none", !.awaited = {}]
  ELSE IF p.pc = "all" THEN [p EXCEPT !.pc = "returned", !.outcome = "none", !.awaited = {}]
  ELSE RunLoop([p EXCEPT !.pc = "loop", !.outcome = "none", !.awaited = {}])

\* The repositories of a listing, by what matters here: how many releases
\* pass the pre-filter (each is probed), and whether convert2json throws after
\* its inner pMap returned.
ProbingListings ==
  { [j \in 1..n |-> [probes |-> c, throws |-> t /\ j = 1]] :
      n \in 1..MaxRepos, c \in 0..MaxProbes, t \in BOOLEAN }

\* main has called pMap(mergedRepositories, ..., kOuter), which ran to its
\* first await. The two calls are observed with concurrency one and two.
InitProbing ==
  /\ \E l \in ProbingListings, kOuter \in {1, 2}, kInner \in {1, 2} :
       probing = [repos |-> l, kOuter |-> kOuter, kInner |-> kInner,
                  outer |-> RunLoop(Call(Len(l), kOuter)),
                  inner |-> [j \in 1..Len(l) |-> Call(0, 0)]]
  /\ propFile = NoPropFile
  /\ PMapIdle
  /\ ConvertIdle
  /\ MainIdle

Others == <<pvars, cvars, REPO, catalog, platform, mode, mpc, fetched, convertResult,
            modules, comment, exitCode, wrote, runs, GRAPHQL_TOKEN, networkIO, stderr,
            propFile>>

\* The outer mapper is invoked on repository j: convert2json runs up to the
\* first await of its inner pMap.
RepositoryStart(j) ==
  /\ CanStart(probing.outer, j)
  /\ probing' = [probing EXCEPT
                   !.outer = [probing.outer EXCEPT !.st[j] = "running"],
                   !.inner[j] = RunLoop(Call(probing.repos[j].probes, probing.kInner))]
  /\ UNCHANGED Others

Converting(j) == probing.outer.st[j] = "running"

\* The inner mapper is invoked on release i of repository j: runzip is started.
ProbeStart(j, i) ==
  /\ Converting(j)
  /\ CanStart(probing.inner[j], i)
  /\ probing' = [probing EXCEPT !.inner[j].st[i] = "running"]
  /\ UNCHANGED Others

\* The probe of release i of repository j is over and its mapper returns.
ProbeEnd(j, i) ==
  /\ Converting(j)
  /\ probing.inner[j].st[i] = "running"
  /\ probing' = [probing EXCEPT !.inner[j] = Resolved(probing.inner[j], i)]
  /\ UNCHANGED Others

ProbeSplice(j, i) ==
  /\ Converting(j)
  /\ probing.inner[j].st[i] = "resolved"
  /\ probing' = [probing EXCEPT !.inner[j] = Spliced(probing.inner[j], i)]
  /\ UNCHANGED Others

\* The inner pMap of repository j resumes after its await.
InnerResume(j) ==
  /\ Converting(j)
  /\ probing.inner[j].pc \in {"race", "all"}
  /\ probing.inner[j].outcome = "ok"
  /\ probing' = [probing EXCEPT !.inner[j] = Resumed(probing.inner[j])]
  /\ UNCHANGED Others

\* convert2json of repository j returns, or throws, once its inner pMap returned.
RepositoryEnd(j) ==
  /\ Converting(j)
  /\ probing.inner[j].pc = "returned"
  /\ probing' = [probing EXCEPT
                   !.outer = IF probing.repos[j].throws
                             THEN Rejected(probing.outer, j)
                             ELSE Resolved(probing.outer, j)]
  /\ UNCHANGED Others

RepositorySplice(j) ==
  /\ probing.outer.st[j] = "resolved"
  /\ probing' = [probing EXCEPT !.outer = Spliced(probing.outer, j)]
  /\ UNCHANGED Others

\* The outer pMap resumes after its await.
OuterResume ==
  /\ probing.outer.pc \in {"race", "all"}
  /\ probing.outer.outcome \in {"ok", "err"}
  /\ probing' = [probing EXCEPT !.outer = Resumed(probing.outer)]
  /\ UNCHANGED Others

NextProbing ==
  \/ \E j \in 1..Len(probing.repos) : RepositoryStart(j)
  \/ \E j \in 1..Len(probing.repos) : \E i \in 1..probing.repos[j].probes : ProbeStart(j, i)
  \/ \E j \in 1..Len(probing.repos) : \E i \in 1..probing.repos[j].probes : ProbeEnd(j, i)
  \/ \E j \in 1..Len(probing.repos) : \E i \in 1..probing.repos[j].probes : ProbeSplice(j, i)
  \/ \E j \in 1..Len(probing.repos) : InnerResume(j)
  \/ \E j \in 1..Len(probing.repos) : RepositoryEnd(j)
  \/ \E j \in 1..Len(probing.repos) : RepositorySplice(j)
  \/ OuterResume

SpecProbing == InitProbing /\ [][NextProbing]_vars

\* The probes in flight for repository j, and in all.
ProbesInFlight(j) ==
  Cardinality({i \in 1..probing.inner[j].n : probing.inner[j].st[i] = "running"})

RECURSIVE SumTo(_, _)
SumTo(f(_), n) == IF n = 0 THEN 0 ELSE f(n) + SumTo(f, n - 1)

AllProbesInFlight == SumTo(ProbesInFlight, Len(probing.repos))

RepositoriesInFlight ==
  Cardinality({j \in 1..Len(probing.repos) : Converting(j)})

\* C30: at any instant of a full run at most K_outer repositories are being
\* converted, each has at most K_inner probes in flight, and so at most
\* K_outer x K_inner probes are in flight in all.
C30_ProbesAtMostProduct ==
  /\ RepositoriesInFlight <= probing.kOuter
  /\ \A j \in 1..Len(probing.repos) : ProbesInFlight(j) <= probing.kInner
  /\ AllProbesInFlight <= probing.kOuter * probing.kInner

\* Both caps bind at once: K_outer x K_inner probes are in flight while a
\* repository and releases of the running ones are still waiting.
C30_Witness ==
  /\ probing.kOuter = 2 /\ probing.kInner = 2
  /\ AllProbesInFlight = probing.kOuter * probing.kInner
  /\ probing.outer.idx < probing.outer.n
  /\ \E j \in 1..Len(probing.repos) : Converting(j) /\ probing.inner[j].idx < probing.inner[j].n

\* -------- the last claims about convert2json
\* The tags of a release list, in order.
TagsOf(rels) == [k \in 1..Len(rels) |-> rels[k].tagName]

\* C31: when convert2json goes on to the pre-filter, the latest release is
\* appended to the release list exactly when the list holds no release of its
\* tag; the list then holds no tag twice, and holds the latest tag whenever
\* there is a latest release.
C31_LatestMergedOnce ==
  [][(cpc = "start" /\ cpc' = "mapping") =>
       LET before == repo.releases
           after == repo'.releases
           absent == /\ repo.latestRelease # <<>>
                     /\ repo.latestRelease[1].tagName \notin Range(TagsOf(before))
       IN /\ after = IF absent THEN before \o repo.latestRelease ELSE before
          /\ \A i, j \in 1..Len(after) : after[i].tagName = after[j].tagName => i = j
          /\ repo.latestRelease # <<>> =>
               repo.latestRelease[1].tagName \in Range(TagsOf(after))]_vars

\* A latest release that the fetched page did not hold was appended to a full
\* page.
C31_Witness ==
  /\ cpc = "mapping"
  /\ Len(repo.releases) = MaxReleases + 1
  /\ repo.latestRelease # <<>>
  /\ repo.releases[Len(repo.releases)] = repo.latestRelease[1]

\* ------------------------------- the parser of the probe, on its own
\* Text is a sequence of characters. modulePropContent.split('\n')
RECURSIVE SplitLines(_)
SplitLines(text) ==
  IF "\n" \notin Range(text) THEN <<text>>
  ELSE LET at == IndexOf(text, "\n")
       IN <<SubSeq(text, 1, at - 1)>> \o SplitLines(SubSeq(text, at + 1, Len(text)))

\* String.prototype.trim, on the whitespace the model writes.
RECURSIVE Trim(_)
Trim(str) ==
  IF str = <<>> THEN str
  ELSE IF Head(str) = " " THEN Trim(Tail(str))
  ELSE IF str[Len(str)] = " " THEN Trim(SubSeq(str, 1, Len(str) - 1))
  ELSE str

\* The line is split at its last '='.
EqIndexLast(line) ==
  IF "=" \notin Range(line) THEN -1
  ELSE (CHOOSE k \in 1..Len(line) :
          line[k] = "=" /\ \A m \in (k + 1)..Len(line) : line[m] # "=") - 1

\* trimmed.indexOf('='), counted from 0, -1 when there is none.
EqIndex(line) == IndexOf(line, "=") - 1

\* The body of the loop over the lines: props after one more line.
ParseLine(props, line) ==
  LET trimmed == Trim(line)
      eqIndex == EqIndex(trimmed)
  IN IF trimmed = <<>> \/ Head(trimmed) = "#" THEN props
     ELSE IF eqIndex > 0
     THEN LET key == Trim(SubSeq(trimmed, 1, eqIndex))
              value == Trim(SubSeq(trimmed, eqIndex + 2, Len(trimmed)))
          IN (key :> value) @@ props
     ELSE props

RECURSIVE ParseLines(_, _)
ParseLines(props, lines) ==
  IF lines = <<>> THEN props ELSE ParseLines(ParseLine(props, Head(lines)), Tail(lines))

\* The parsing part of extractModulePropsFromZip, on the output of runzip.
ParseModuleProp(modulePropContent) ==
  IF modulePropContent = <<>> THEN EmptyProps
  ELSE ParseLines(EmptyProps, SplitLines(modulePropContent))

\* The key=value serialization of a list of entries <<key, value>>: one line
\* per entry, in the order of the list.
RECURSIVE Serialize(_)
Serialize(entries) ==
  IF entries = <<>> THEN <<>>
  ELSE LET line == entries[1][1] \o <<"=">> \o entries[1][2]
       IN IF Len(entries) = 1 THEN line ELSE line \o <<"\n">> \o Serialize(Tail(entries))

\* The property names and values a module.prop is written from.
PropEntries ==
  LET keys == {<<"i", "d">>, <<"v">>, <<" ", "v">>, <<"#", "v">>, <<"v", "=", "c">>, <<>>}
      values == {<<>>, <<"1">>, <<"#", "1">>, <<"1", " ">>, <<"a", "=", "1">>,
                 <<"1", "\n", "b">>}
  IN {e \in SeqsUpTo(keys \X values, 2) :
        \A i, j \in 1..Len(e) : e[i][1] = e[j][1] => i = j}

InitPropFile ==
  /\ \E e \in PropEntries :
       propFile = [stage |-> "written", entries |-> e,
                   modulePropContent |-> Serialize(e), props |-> EmptyProps]
  /\ probing = NoProbing
  /\ PMapIdle
  /\ ConvertIdle
  /\ MainIdle

\* The probe parses what runzip printed.
ParsePropFile ==
  /\ propFile.stage = "written"
  /\ propFile' = [propFile EXCEPT !.stage = "parsed",
                                  !.props = ParseModuleProp(propFile.modulePropContent)]
  /\ UNCHANGED <<pvars, cvars, REPO, catalog, platform, mode, mpc, fetched, convertResult,
                 modules, comment, exitCode, wrote, runs, GRAPHQL_TOKEN, networkIO,
                 stderr, probing>>

NextPropFile == ParsePropFile

SpecPropFile == InitPropFile /\ [][NextPropFile]_vars

\* The PropertyMap the entries spell out.
MapOf(entries) ==
  [k \in {entries[i][1] : i \in 1..Len(entries)} |->
     (CHOOSE e \in Range(entries) : e[1] = k)[2]]

\* C32 as it is stated: whenever no value starts with '#' (the keys of the
\* entries are distinct), parsing the serialization yields the entries.
C32_AsClaimed ==
  (/\ propFile.stage = "parsed"
   /\ \A i \in 1..Len(propFile.entries) :
        LET value == propFile.entries[i][2] IN value = <<>> \/ Head(value) # "#")
    => propFile.props = MapOf(propFile.entries)

\* A key or a value that survives a line of the file: no line break in it and
\* no space at either end; a key moreover is not empty, holds no '=' and
\* does not start with '#'.
PlainValue(str) ==
  /\ "\n" \notin Range(str)
  /\ str # <<>> => (Head(str) # " " /\ str[Len(str)] # " ")

PlainKey(str) == PlainValue(str) /\ str # <<>> /\ Head(str) # "#" /\ "=" \notin Range(str)

\* C32, amended: for distinct plain keys and plain values, which may start
\* with '#' and may hold '=', parsing the serialization yields exactly the
\* entries.
C32_RoundTripPlain ==
  (/\ propFile.stage = "parsed"
   /\ \A i \in 1..Len(propFile.entries) :
        PlainKey(propFile.entries[i][1]) /\ PlainValue(propFile.entries[i][2]))
    => propFile.props = MapOf(propFile.entries)

\* Two entries came back, one with a value that starts with '#' and one with
\* a value that holds '='.
C32_Witness ==
  /\ propFile.stage = "parsed"
  /\ propFile.entries = << <<<<"i", "d">>, <<"#", "1">>>>, <<<<"v">>, <<"a", "=", "1">>>> >>
  /\ propFile.props = MapOf(propFile.entries)
  /\ DOMAIN propFile.props = {<<"i", "d">>, <<"v">>}

\* -------- the outcome of convert2json and the order the probes complete in
\* The position in the processed release list of the release a skip record
\* is about.
ListPosition(skip) == IndexOf([k \in 1..Len(repo.releases) |-> repo.releases[k].tagName],
                              skip.tagName)

\* The skip records are not in the order of the release list.
SkipsOutOfListOrder ==
  \E i, j \in 1..Len(releaseSkipReasons) :
    i < j /\ ListPosition(releaseSkipReasons[i]) > ListPosition(releaseSkipReasons[j])

\* C33: whatever order the probes of the releases completed in, convert2json
\* returns what it returns when they complete in list order: the same Module
\* with the same release list, or a SkipInfo with the same reason, details,
\* shouldNotify and tagName.
C33_OutcomeOrderIndependent ==
  cpc = "done" =>
    /\ cresult.status = ConvertOutcome(repo).status
    /\ cresult.status = "success" => cresult.module = ConvertOutcome(repo).module
    /\ cresult.status = "skip" =>
         LET got == cresult.skipInfo
             want == ConvertOutcome(repo).skipInfo
         IN /\ got.reason = want.reason
            /\ got.details = want.details
            /\ got.shouldNotify = want.shouldNotify
            /\ got.tagName = want.tagName

\* The probes completed against list order, the skip list shows it, and the
\* SkipInfo is the one of the latest release all the same.
C33_Witness ==
  /\ cpc = "done"
  /\ SkipsOutOfListOrder
  /\ cresult.status = "skip"
  /\ repo.latestRelease # <<>>
  /\ cresult.skipInfo.tagName = repo.latestRelease[1].tagName
  /\ releaseSkipReasons[1].tagName # repo.latestRelease[1].tagName

\* -------- the catalog file and the incremental runs that do not succeed
\* The run is incremental and ended without a validated module: the
\* repository was not found, or convert2json returned a SkipInfo.
NotFound == mode = "incremental" /\ Ended /\ fetched = <<>>
IncrementalFailed == NotFound \/ (ValidatorFailed /\ Ended)

\* The catalog file holds an entry for the repository the run is about.
Catalogued ==
  /\ catalog # NoFile
  /\ catalog # Truncated
  /\ \E k \in 1..Len(catalog) : catalog[k].moduleId = ModulePackage(REPO)

\* C34: no step of an incremental run that has no validated module (from the
\* choice of the mode to the exit after a failed validation or a repository
\* that was not found) changes the catalog file or counts as a write, so the
\* file such a run ends with is the file it started with.
C34_FailedRunLeavesCatalog ==
  [][(mode' = "incremental" /\ convertResult'.status # "success")
       => (catalog' = catalog /\ ~wrote')]_vars

\* A second run, incremental, failed validation for a repository the first
\* run had catalogued, and the entry is still there.
C34_Witness ==
  /\ IncrementalFailed
  /\ ValidatorFailed
  /\ runs = 2
  /\ Catalogued
  /\ ~wrote

\* -------- the account of the pre-filtered releases
\* The inner pMap returned: items holds the pre-filtered releases, results
\* the value the mapper returned for each.
MapperFinished == cpc = "done" /\ ppc = "returned" /\ caller = "convert2json"
AcceptedCount == Cardinality({j \in 1..Len(items) : results[j] # NullResult})
RecordsAbout(j) ==
  Cardinality({k \in 1..Len(releaseSkipReasons) :
                 releaseSkipReasons[k].tagName = items[j].tagName})

\* C35: once the inner pMap has returned, each pre-filtered release has either
\* a non-null result and no skip record, or a null result and exactly one skip
\* record with its tag; accepted + skipped = pre-filtered; and when nothing is
\* accepted out of a non-empty pre-filter the skip list is non-empty and the
\* SkipInfo is not the NO_VALID_RELEASES with shouldNotify = true of the last
\* branch.
C35_EveryReleaseAccounted ==
  MapperFinished =>
    /\ \A j \in 1..Len(items) :
         IF results[j] # NullResult THEN RecordsAbout(j) = 0 ELSE RecordsAbout(j) = 1
    /\ AcceptedCount + Len(releaseSkipReasons) = Len(items)
    /\ (AcceptedCount = 0 /\ Len(items) > 0) =>
         /\ Len(releaseSkipReasons) > 0
         /\ cresult.status = "skip"
         /\ ~(cresult.skipInfo.reason = "NO_VALID_RELEASES" /\ cresult.skipInfo.shouldNotify)

\* Three releases passed the pre-filter, none was accepted, and each left
\* one skip record.
C35_Witness ==
  /\ MapperFinished
  /\ Len(items) = MaxReleases + 1
  /\ AcceptedCount = 0
  /\ Len(releaseSkipReasons) = Len(items)
  /\ cresult.status = "skip"

\* -------- the modules a run puts into the catalog
\* The releases the platform holds for a repository: the page and the latest.
PlatformReleases(r) == Range(r.releases) \cup Range(r.latestRelease)

\* Module m was built from repository r of the platform: it carries its name,
\* a name that is allowed, a description, and at least one release; each
\* release has a version and a versionCode and the tag of a release of r
\* whose archive printed a module.prop with id = moduleId.
BuiltFrom(m, r) ==
  /\ m.moduleId = r.name
  /\ m.moduleId \notin {".github", "submission", "developers", "modules",
                        "org.kernelsu.example", "module_release"}
  /\ NameMatches(m.moduleId)
  /\ m.moduleName # "" /\ m.moduleName # Undefined
  /\ Len(m.releases) > 0
  /\ \A k \in 1..Len(m.releases) :
       /\ m.releases[k].version \notin {"", Undefined}
       /\ m.releases[k].versionCode \notin {"", Undefined}
       /\ \E rel \in PlatformReleases(r) :
            /\ rel.tagName = m.releases[k].tagName
            /\ rel.probe = "stdout"
            /\ "id" \in DOMAIN rel.props
            /\ rel.props["id"] = m.moduleId
            /\ rel.props["version"] = m.releases[k].version
            /\ rel.props["versionCode"] = m.releases[k].versionCode

\* C36: every Module of the catalog a full run wrote was built from a
\* repository of the listing, and the Module an incremental run put into the
\* catalog was built from the repository it fetched: non-empty release list,
\* every release with version and versionCode from an archive whose id is the
\* moduleId, moduleId not reserved and of the required form, moduleName
\* non-empty.
C36_CataloguedModulesWellFormed ==
  /\ (Ended /\ wrote /\ mode = "full") =>
       \A k \in 1..Len(catalog) :
         \E j \in 1..Len(platform) : BuiltFrom(catalog[k], platform[j])
  /\ (Ended /\ wrote /\ mode = "incremental") =>
       /\ \E k \in 1..Len(catalog) : catalog[k] = convertResult.module
       /\ BuiltFrom(convertResult.module, fetched[1])

\* A full run listed a repository whose latest release has no version and
\* wrote a catalog that holds the module with the older release only.
C36_Witness ==
  /\ Ended /\ wrote /\ mode = "full"
  /\ Len(catalog) = 1
  /\ Len(platform[1].releases) = 2
  /\ Len(catalog[1].releases) = 1
  /\ catalog[1].releases[1].tagName = "v8"

\* -------- the release the snapshot time of a Module is taken from
IsSnapshot(rel) == rel.isPrerelease /\ rel.name \in {"snapshot-1", "Nightly"}
IsBeta(rel) == rel.isPrerelease /\ rel.name \notin {"snapshot-1", "Nightly"}
IsStable(rel) == ~rel.isPrerelease

\* The position in the accepted releases the chain snapshot, beta, stable
\* ends at, or 0.
ChainEnd(rels) ==
  IF FirstAt(rels, IsSnapshot) # 0 THEN FirstAt(rels, IsSnapshot)
  ELSE IF FirstAt(rels, IsBeta) # 0 THEN FirstAt(rels, IsBeta)
  ELSE FirstAt(rels, IsStable)

\* C37: in every accepted Module the chain snapshot, beta, stable ends at one
\* of the Module's releases, and latestSnapshotReleaseTime is the publishedAt
\* of that release, or the epoch when the release has none.
C37_SnapshotResolves ==
  (cpc = "done" /\ cresult.status = "success") =>
    LET m == cresult.module
        at == ChainEnd(m.releases)
    IN /\ at \in 1..Len(m.releases)
       /\ m.latestSnapshotReleaseTime =
            IF m.releases[at].publishedAt = NullTime THEN Epoch
            ELSE m.releases[at].publishedAt
       /\ m.latestSnapshotReleaseTime = Epoch => m.releases[at].publishedAt = NullTime

\* A Module without a snapshot and with a beta behind a stable release: the
\* snapshot time is the beta's.
C37_Witness ==
  /\ cpc = "done" /\ cresult.status = "success"
  /\ Len(cresult.module.releases) = 2
  /\ IsStable(cresult.module.releases[1])
  /\ IsBeta(cresult.module.releases[2])
  /\ cresult.module.latestSnapshotReleaseTime = cresult.module.releases[2].publishedAt
  /\ cresult.module.latestSnapshotReleaseTime # cresult.module.latestReleaseTime

====
